---- MODULE Spec2Model ----
(***************************************************************************)
(* Model of the cost-composition engine of goremi-cost-calculator          *)
(* (src/cost_calculator.py, class CostCalculator), of the same engine as   *)
(* CostCalculatorWithSheets carries it (src/cost_calculator_with_sheets.py)*)
(* and of the Google Sheets layer (src/google_sheets_manager.py).          *)
(*                                                                         *)
(* A client holds one CostCalculator object and calls its six calculate_*  *)
(* methods with arguments of its choice.  The state is the calculator      *)
(* object, the last call (method, arguments as passed), the first          *)
(* argument object as the call left it (the line lists are annotated in    *)
(* place), the returned mapping and the exception raised, if any.          *)
(*                                                                         *)
(* A second specification, SpecConcurrent, runs two calls of the line      *)
(* methods at once, one loop iteration at a time: calls holds each call's  *)
(* position, list and outcome, frames the local variables total_cost and   *)
(* total_weight of each call.                                              *)
(*                                                                         *)
(* A third specification, SpecSheets, is the Google Sheets layer: sheets   *)
(* holds the fields of a CostCalculatorWithSheets object and of its        *)
(* GoogleSheetsManager, worksheet the rows of the remote product sheet,    *)
(* last the latest call with its arguments, outcome and the rows the sheet *)
(* held when it was made, and history which calls have succeeded so far.   *)
(*                                                                         *)
(* Numbers: Python evaluates the formulas in binary floating point; the    *)
(* model evaluates the same expressions, in the same order, over exact     *)
(* rationals.  A rational is a pair <<n, d>> in lowest terms with d > 0,   *)
(* so two rationals are equal exactly when their pairs are equal.          *)
(***************************************************************************)
EXTENDS Integers, Sequences, FiniteSets, TLC

VARIABLES self, method, args, data, result, raised, calls, frames,
          sheets, worksheet, last, history

\* the variables of the Google Sheets layer
sheetVars == <<sheets, worksheet, last, history>>

\* the variables of the calculation engine
engineVars == <<self, method, args, data, result, raised, calls, frames>>

vars ==
    <<self, method, args, data, result, raised, calls, frames,
      sheets, worksheet, last, history>>

----------------------------------------------------------------------------
(* Exact rational arithmetic standing for Python's number arithmetic.      *)

Abs(x) == IF x < 0 THEN -x ELSE x

RECURSIVE GCD(_, _)
GCD(a, b) == IF b = 0 THEN a ELSE GCD(b, a % b)

\* n/d in lowest terms with a positive denominator (d # 0)
Norm(n, d) ==
    LET g == GCD(Abs(n), Abs(d))
        s == IF d < 0 THEN -1 ELSE 1
    IN  <<(s * n) \div g, (s * d) \div g>>

\* the integer literal k
Num(k) == <<k, 1>>

\* a + b
Add(a, b) == Norm(a[1] * b[2] + b[1] * a[2], a[2] * b[2])

\* a - b
Sub(a, b) == Norm(a[1] * b[2] - b[1] * a[2], a[2] * b[2])

\* a * b
Mul(a, b) == Norm(a[1] * b[1], a[2] * b[2])

\* a > b
Gt(a, b) == a[1] * b[2] > b[1] * a[2]

\* a < b
Lt(a, b) == Gt(b, a)

\* the literal 0
Zero == Num(0)

\* the literal 100 of the percentage divisions
Hundred == Num(100)

\* a / b: Python raises ZeroDivisionError when b is zero
DivRaises(a, b) == b[1] = 0

\* a / b for b # 0
Div(a, b) == Norm(a[1] * b[2], a[2] * b[1])

\* the outcome of evaluating a / b: the quotient, or the exception
TrueDiv(a, b) ==
    IF DivRaises(a, b)
    THEN [raised |-> "ZeroDivisionError", value |-> Zero]
    ELSE [raised |-> "none", value |-> Div(a, b)]

----------------------------------------------------------------------------
(* Bounds and input domains.                                               *)

\* longest material or packaging list a call is given
MaxLines == 2

\* the mappings' null value before any call
NoValue == [none |-> TRUE]

Names == {"", "A"}

Ratios == {Num(-5), Zero, <<185, 2>>}

UnitPrices == {Zero, Num(3), Num(8)}

BaseQuantities == {Zero, Num(1000)}

\* the material lines main() builds: {name, ratio, unit_price, base_quantity}
MaterialLines ==
    [name : Names, ratio : Ratios, unit_price : UnitPrices,
     base_quantity : BaseQuantities]

\* all lists of at most n elements of S
ListsUpTo(S, n) == UNION {[1..k -> S] : k \in 0..n}

\* the two calls that run at once
Threads == {1, 2}

\* a call that has not begun
NoCall ==
    [pc |-> "idle", method |-> "none", input |-> << >>, lines |-> << >>,
     i |-> 0, raised |-> "none", ret |-> NoValue, overlapped |-> FALSE]

\* the local variables of a call that has not begun
NoFrame == [total_cost |-> Zero, total_weight |-> Zero]

----------------------------------------------------------------------------
(* CostCalculator.__init__                                                 *)

CostCalculator_init ==
    [raw_materials |-> << >>, packaging_materials |-> << >>,
     labor_costs |-> << >>, manufacturing_overhead |-> << >>]

\* Python's None
None == "None"

\* CostCalculatorWithSheets.__init__ with GoogleSheetsManager.__init__:
\* no credentials, client or spreadsheet, and no manager
CostCalculatorWithSheets_init ==
    [credentials |-> None, client |-> None, spreadsheet |-> None,
     product_manager |-> None, material_manager |-> None,
     calculation_manager |-> None]

\* no call of the Google Sheets layer made yet
NoOperation ==
    [name |-> "none", args |-> NoValue, ret |-> NoValue, raised |-> "none",
     fail |-> << >>, before |-> << >>, authenticated |-> FALSE,
     opened |-> FALSE]

\* nothing has succeeded or been called yet
NoHistory ==
    [authenticated |-> FALSE, opened |-> FALSE, initialized |-> FALSE]

Init ==
    /\ self = CostCalculator_init
    /\ method = "none"
    /\ args = NoValue
    /\ data = NoValue
    /\ result = NoValue
    /\ raised = "none"
    /\ calls = [t \in Threads |-> NoCall]
    /\ frames = [t \in Threads |-> NoFrame]
    /\ sheets = CostCalculatorWithSheets_init
    /\ worksheet = << >>
    /\ last = NoOperation
    /\ history = NoHistory

----------------------------------------------------------------------------
(* calculate_raw_material_cost                                             *)

\* the truth value of a string: non-empty
Truthy(name) == name # ""

\* variant: the name test is dropped from the condition
IsValidMaterialAnyName(material) ==
    /\ Gt(material.ratio, Zero)
    /\ Gt(material.unit_price, Zero)

\* variant: the price test is unit_price >= 0
IsValidMaterialZeroPrice(material) ==
    /\ Truthy(material.name)
    /\ Gt(material.ratio, Zero)
    /\ ~Lt(material.unit_price, Zero)

\* variant: the ratio test is ratio != 0
IsValidMaterialNonZeroRatio(material) ==
    /\ Truthy(material.name)
    /\ material.ratio # Zero
    /\ Gt(material.unit_price, Zero)

\* if material['name'] and material['ratio'] > 0 and material['unit_price'] > 0
IsValidMaterial(material) ==
    /\ Truthy(material.name)
    /\ Gt(material.ratio, Zero)
    /\ Gt(material.unit_price, Zero)

\* input_quantity = material['ratio'] / 100 * material['base_quantity']
InputQuantity(material) ==
    Mul(Div(material.ratio, Hundred), material.base_quantity)

\* cost = input_quantity * material['unit_price']
MaterialCost(material, input_quantity) ==
    Mul(input_quantity, material.unit_price)

\* variant: the line's name is blanked along with the two assignments
SetKeysBlankingName(line, key1, v1, key2, v2) ==
    (key1 :> v1) @@ (key2 :> v2) @@ ("name" :> "") @@ line

\* material[key1] = v1; material[key2] = v2 (the other keys are kept)
SetKeys(line, key1, v1, key2, v2) ==
    (key1 :> v1) @@ (key2 :> v2) @@ line

\* variant: the valid branch adds cost, not input_quantity, to total_weight
RawMaterialStepWeightFromCost(st, i) ==
    LET material == st.materials[i] IN
    IF IsValidMaterial(material)
    THEN LET input_quantity == InputQuantity(material)
             cost == MaterialCost(material, input_quantity)
         IN  [materials |-> [st.materials EXCEPT ![i] =
                                SetKeys(material, "input_quantity",
                                        input_quantity, "cost", cost)],
              total_cost |-> Add(st.total_cost, cost),
              total_weight |-> Add(st.total_weight, cost)]
    ELSE [materials |-> [st.materials EXCEPT ![i] =
                            SetKeys(material, "input_quantity", Zero,
                                    "cost", Zero)],
          total_cost |-> st.total_cost,
          total_weight |-> st.total_weight]

\* variant: the line's cost is added to the cost the line already carries
RawMaterialStepAccumulatingCost(st, i) ==
    LET material == st.materials[i]
        carried == IF "cost" \in DOMAIN material THEN material.cost ELSE Zero
    IN
    IF IsValidMaterial(material)
    THEN LET input_quantity == InputQuantity(material)
             cost == MaterialCost(material, input_quantity)
         IN  [materials |-> [st.materials EXCEPT ![i] =
                                SetKeys(material, "input_quantity",
                                        input_quantity, "cost",
                                        Add(carried, cost))],
              total_cost |-> Add(st.total_cost, cost),
              total_weight |-> Add(st.total_weight, input_quantity)]
    ELSE [materials |-> [st.materials EXCEPT ![i] =
                            SetKeys(material, "input_quantity", Zero,
                                    "cost", Zero)],
          total_cost |-> st.total_cost,
          total_weight |-> st.total_weight]

\* one iteration of the for loop over the running state
\* st = [materials, total_cost, total_weight], at list position i
RawMaterialStep(st, i) ==
    LET material == st.materials[i] IN
    IF IsValidMaterial(material)
    THEN LET input_quantity == InputQuantity(material)
             cost == MaterialCost(material, input_quantity)
         IN  [materials |-> [st.materials EXCEPT ![i] =
                                SetKeys(material, "input_quantity",
                                        input_quantity, "cost", cost)],
              total_cost |-> Add(st.total_cost, cost),
              total_weight |-> Add(st.total_weight, input_quantity)]
    ELSE [materials |-> [st.materials EXCEPT ![i] =
                            SetKeys(material, "input_quantity", Zero,
                                    "cost", Zero)],
          total_cost |-> st.total_cost,
          total_weight |-> st.total_weight]

\* the for loop: iterations i..Len(materials), in list order
RECURSIVE RawMaterialLoop(_, _)
RawMaterialLoop(st, i) ==
    IF i > Len(st.materials) THEN st
    ELSE RawMaterialLoop(RawMaterialStep(st, i), i + 1)

\* variant: the division is made without the total_weight > 0 test
AvgUnitPriceUnguarded(total_cost, total_weight) ==
    TrueDiv(total_cost, total_weight)

\* total_cost / total_weight if total_weight > 0 else 0
AvgUnitPrice(total_cost, total_weight) ==
    IF Gt(total_weight, Zero)
    THEN TrueDiv(total_cost, total_weight)
    ELSE [raised |-> "none", value |-> Zero]

\* total_cost = 0; total_weight = 0: the state the loop starts from
RawMaterialStart(materials_data) ==
    [materials |-> materials_data, total_cost |-> Zero, total_weight |-> Zero]

\* variant: only the lines that passed the condition are returned
RawMaterialReturnValidOnly(st) ==
    LET avg == AvgUnitPrice(st.total_cost, st.total_weight)
        kept == SelectSeq(st.materials, IsValidMaterial)
    IN  [raised |-> avg.raised,
         data |-> st.materials,
         ret |-> IF avg.raised # "none" THEN NoValue
                 ELSE [materials |-> kept,
                       total_cost |-> st.total_cost,
                       total_weight |-> st.total_weight,
                       avg_unit_price |-> avg.value]]

\* the return statement, from the state st the loop ended in: what it
\* raises, the returned mapping and the argument list as the loop left it
RawMaterialReturn(st) ==
    LET avg == AvgUnitPrice(st.total_cost, st.total_weight)
    IN  [raised |-> avg.raised,
         data |-> st.materials,
         ret |-> IF avg.raised # "none" THEN NoValue
                 ELSE [materials |-> st.materials,
                       total_cost |-> st.total_cost,
                       total_weight |-> st.total_weight,
                       avg_unit_price |-> avg.value]]

\* the whole method
calculate_raw_material_cost(materials_data) ==
    RawMaterialReturn(RawMaterialLoop(RawMaterialStart(materials_data), 1))

\* no call has been made on the calculator since it was constructed; the
\* methods are called one at a time from this state
Idle == method = "none"

\* calculator = CostCalculator(): every run of main() starts from a new object
NewCalculator ==
    /\ ~Idle
    /\ self' = CostCalculator_init
    /\ method' = "none"
    /\ args' = NoValue
    /\ data' = NoValue
    /\ result' = NoValue
    /\ raised' = "none"
    /\ UNCHANGED <<calls, frames, sheetVars>>

CalculateRawMaterialCost ==
    /\ Idle
    /\ \E materials_data \in ListsUpTo(MaterialLines, MaxLines) :
        LET r == calculate_raw_material_cost(materials_data) IN
        /\ method' = "calculate_raw_material_cost"
        /\ args' = [materials_data |-> materials_data]
        /\ data' = r.data
        /\ result' = r.ret
        /\ raised' = r.raised
        /\ UNCHANGED <<self, calls, frames, sheetVars>>

\* a second call on the list object the first call was given, which now
\* carries the keys input_quantity and cost (main() line 247 on a rerun
\* with the same list)
CalculateRawMaterialCostAgain ==
    /\ method = "calculate_raw_material_cost"
    /\ raised = "none"
    /\ LET r == calculate_raw_material_cost(data) IN
        /\ method' = "calculate_raw_material_cost"
        /\ args' = [materials_data |-> data]
        /\ data' = r.data
        /\ result' = r.ret
        /\ raised' = r.raised
        /\ UNCHANGED <<self, calls, frames, sheetVars>>

----------------------------------------------------------------------------
(* calculate_packaging_cost                                                *)

PackagingNames == {"", "Pouch"}

PackagingPrices == {Zero, Num(197)}

Quantities == {Num(-1), Zero, Num(2703)}

Weights == {Zero, <<2, 5>>}

\* the packaging lines main() builds
PackagingLines ==
    [name : PackagingNames, unit_price : PackagingPrices,
     quantity : Quantities, weight_per_unit : Weights]

\* variant: the quantity test is quantity != 0
IsValidPackagingNonZeroQuantity(item) ==
    /\ Truthy(item.name)
    /\ Gt(item.unit_price, Zero)
    /\ item.quantity # Zero

\* if item['name'] and item['unit_price'] > 0 and item['quantity'] > 0
IsValidPackaging(item) ==
    /\ Truthy(item.name)
    /\ Gt(item.unit_price, Zero)
    /\ Gt(item.quantity, Zero)

\* variant: weight is weight_per_unit, not multiplied by quantity
PackagingStepUnitWeight(st, i) ==
    LET item == st.packaging[i] IN
    IF IsValidPackaging(item)
    THEN LET cost == Mul(item.unit_price, item.quantity)
             weight == item.weight_per_unit
         IN  [packaging |-> [st.packaging EXCEPT ![i] =
                                SetKeys(item, "total_cost", cost,
                                        "total_weight", weight)],
              total_cost |-> Add(st.total_cost, cost),
              total_weight |-> Add(st.total_weight, weight)]
    ELSE [packaging |-> [st.packaging EXCEPT ![i] =
                            SetKeys(item, "total_cost", Zero,
                                    "total_weight", Zero)],
          total_cost |-> st.total_cost,
          total_weight |-> st.total_weight]

\* one iteration of the for loop over st = [packaging, total_cost,
\* total_weight], at list position i
PackagingStep(st, i) ==
    LET item == st.packaging[i] IN
    IF IsValidPackaging(item)
    THEN LET cost == Mul(item.unit_price, item.quantity)
             weight == Mul(item.weight_per_unit, item.quantity)
         IN  [packaging |-> [st.packaging EXCEPT ![i] =
                                SetKeys(item, "total_cost", cost,
                                        "total_weight", weight)],
              total_cost |-> Add(st.total_cost, cost),
              total_weight |-> Add(st.total_weight, weight)]
    ELSE [packaging |-> [st.packaging EXCEPT ![i] =
                            SetKeys(item, "total_cost", Zero,
                                    "total_weight", Zero)],
          total_cost |-> st.total_cost,
          total_weight |-> st.total_weight]

RECURSIVE PackagingLoop(_, _)
PackagingLoop(st, i) ==
    IF i > Len(st.packaging) THEN st
    ELSE PackagingLoop(PackagingStep(st, i), i + 1)

\* total_cost = 0; total_weight = 0: the state the loop starts from
PackagingStart(packaging_data) ==
    [packaging |-> packaging_data, total_cost |-> Zero, total_weight |-> Zero]

\* the return statement, from the state st the loop ended in
PackagingReturn(st) ==
    [raised |-> "none",
     data |-> st.packaging,
     ret |-> [packaging |-> st.packaging,
              total_cost |-> st.total_cost,
              total_weight |-> st.total_weight]]

\* the whole method
calculate_packaging_cost(packaging_data) ==
    PackagingReturn(PackagingLoop(PackagingStart(packaging_data), 1))

CalculatePackagingCost ==
    /\ Idle
    /\ \E packaging_data \in ListsUpTo(PackagingLines, MaxLines) :
        LET r == calculate_packaging_cost(packaging_data) IN
        /\ method' = "calculate_packaging_cost"
        /\ args' = [packaging_data |-> packaging_data]
        /\ data' = r.data
        /\ result' = r.ret
        /\ raised' = r.raised
        /\ UNCHANGED <<self, calls, frames, sheetVars>>

\* a second call on the list object the first call was given, which now
\* carries the keys total_cost and total_weight
CalculatePackagingCostAgain ==
    /\ method = "calculate_packaging_cost"
    /\ raised = "none"
    /\ LET r == calculate_packaging_cost(data) IN
        /\ method' = "calculate_packaging_cost"
        /\ args' = [packaging_data |-> data]
        /\ data' = r.data
        /\ result' = r.ret
        /\ raised' = r.raised
        /\ UNCHANGED <<self, calls, frames, sheetVars>>

----------------------------------------------------------------------------
(* calculate_labor_cost and calculate_manufacturing_overhead               *)

\* the pre-computed component amounts a caller hands in
Amounts == {Num(-4), Zero, Num(6)}

LaborData ==
    [direct_labor : Amounts, indirect_labor : Amounts,
     temporary_labor : Amounts]

OverheadData ==
    [other_expenses : Amounts, welfare_expenses : Amounts,
     depreciation : Amounts]

\* variant: temporary_labor is left out of the sum
calculate_labor_cost_without_temporary(labor_data) ==
    LET direct_labor == labor_data.direct_labor
        indirect_labor == labor_data.indirect_labor
        temporary_labor == labor_data.temporary_labor
        total_labor_cost == Add(direct_labor, indirect_labor)
    IN  [raised |-> "none",
         data |-> labor_data,
         ret |-> [direct_labor |-> direct_labor,
                  indirect_labor |-> indirect_labor,
                  temporary_labor |-> temporary_labor,
                  total_labor_cost |-> total_labor_cost]]

calculate_labor_cost(labor_data) ==
    LET direct_labor == labor_data.direct_labor
        indirect_labor == labor_data.indirect_labor
        temporary_labor == labor_data.temporary_labor
        total_labor_cost ==
            Add(Add(direct_labor, indirect_labor), temporary_labor)
    IN  [raised |-> "none",
         data |-> labor_data,
         ret |-> [direct_labor |-> direct_labor,
                  indirect_labor |-> indirect_labor,
                  temporary_labor |-> temporary_labor,
                  total_labor_cost |-> total_labor_cost]]

\* variant: depreciation is subtracted from, not added to, the sum
calculate_manufacturing_overhead_less_depreciation(overhead_data) ==
    LET other_expenses == overhead_data.other_expenses
        welfare_expenses == overhead_data.welfare_expenses
        depreciation == overhead_data.depreciation
        total_overhead ==
            Sub(Add(other_expenses, welfare_expenses), depreciation)
    IN  [raised |-> "none",
         data |-> overhead_data,
         ret |-> [other_expenses |-> other_expenses,
                  welfare_expenses |-> welfare_expenses,
                  depreciation |-> depreciation,
                  total_overhead |-> total_overhead]]

calculate_manufacturing_overhead(overhead_data) ==
    LET other_expenses == overhead_data.other_expenses
        welfare_expenses == overhead_data.welfare_expenses
        depreciation == overhead_data.depreciation
        total_overhead ==
            Add(Add(other_expenses, welfare_expenses), depreciation)
    IN  [raised |-> "none",
         data |-> overhead_data,
         ret |-> [other_expenses |-> other_expenses,
                  welfare_expenses |-> welfare_expenses,
                  depreciation |-> depreciation,
                  total_overhead |-> total_overhead]]

CalculateLaborCost ==
    /\ Idle
    /\ \E labor_data \in LaborData :
        LET r == calculate_labor_cost(labor_data) IN
        /\ method' = "calculate_labor_cost"
        /\ args' = [labor_data |-> labor_data]
        /\ data' = r.data
        /\ result' = r.ret
        /\ raised' = r.raised
        /\ UNCHANGED <<self, calls, frames, sheetVars>>

CalculateManufacturingOverhead ==
    /\ Idle
    /\ \E overhead_data \in OverheadData :
        LET r == calculate_manufacturing_overhead(overhead_data) IN
        /\ method' = "calculate_manufacturing_overhead"
        /\ args' = [overhead_data |-> overhead_data]
        /\ data' = r.data
        /\ result' = r.ret
        /\ raised' = r.raised
        /\ UNCHANGED <<self, calls, frames, sheetVars>>

----------------------------------------------------------------------------
(* main(): the labor section, which computes the three components from     *)
(* the widgets' values and hands them to calculate_labor_cost              *)

\* the values the twelve number_input widgets are given
LaborRatios == {Zero, Num(25)}

HourlyWages == {Num(10), Num(125)}

WorkHours == {Num(8)}

WorkerCounts == {Num(-1), Num(3)}

\* the four widgets of one component
LaborInputs ==
    [ratio : LaborRatios, hourly_wage : HourlyWages, hours : WorkHours,
     worker_count : WorkerCounts]

\* variant: the product stops before worker_count
LaborComponentPerWorker(ratio, hourly_wage, hours, worker_count) ==
    Mul(Mul(Div(ratio, Hundred), hourly_wage), hours)

\* (ratio / 100) * hourly_wage * hours * worker_count
LaborComponent(ratio, hourly_wage, hours, worker_count) ==
    Mul(Mul(Mul(Div(ratio, Hundred), hourly_wage), hours), worker_count)

\* the labor_data mapping main() builds from the three groups of widgets
MainLaborData(direct, indirect, temporary) ==
    [direct_labor |->
        LaborComponent(direct.ratio, direct.hourly_wage, direct.hours,
                       direct.worker_count),
     indirect_labor |->
        LaborComponent(indirect.ratio, indirect.hourly_wage, indirect.hours,
                       indirect.worker_count),
     temporary_labor |->
        LaborComponent(temporary.ratio, temporary.hourly_wage,
                       temporary.hours, temporary.worker_count)]

MainLabor ==
    /\ Idle
    /\ \E direct \in LaborInputs, indirect \in LaborInputs,
          temporary \in LaborInputs :
        LET labor_data == MainLaborData(direct, indirect, temporary)
            r == calculate_labor_cost(labor_data)
        IN  /\ method' = "main.calculate_labor_cost"
            /\ args' = [labor_data |-> labor_data, direct |-> direct,
                        indirect |-> indirect, temporary |-> temporary]
            /\ data' = r.data
            /\ result' = r.ret
            /\ raised' = r.raised
            /\ UNCHANGED <<self, calls, frames, sheetVars>>

----------------------------------------------------------------------------
(* calculate_total_cost                                                    *)

RawTotals == {Zero, Num(12)}

PackagingTotals == {Zero, Num(5)}

LaborTotals == {Num(-4), Zero, Num(6)}

OverheadTotals == {Zero, Num(7)}

ProductionQuantities == {Num(-2), Zero, Num(1), Num(4)}

\* variant: the packaging total is left out of material_cost
MaterialCostRawOnly(raw_material_cost, packaging_cost) ==
    raw_material_cost.total_cost

\* raw_material_cost['total_cost'] + packaging_cost['total_cost']
MaterialCostSum(raw_material_cost, packaging_cost) ==
    Add(raw_material_cost.total_cost, packaging_cost.total_cost)

\* variant: the overhead total is left out of the sum
TotalManufacturingCostWithoutOverhead(material_cost, labor_cost, overhead_cost) ==
    Add(material_cost, labor_cost.total_labor_cost)

\* material_cost + labor_cost['total_labor_cost'] + overhead_cost['total_overhead']
TotalManufacturingCost(material_cost, labor_cost, overhead_cost) ==
    Add(Add(material_cost, labor_cost.total_labor_cost),
        overhead_cost.total_overhead)

\* variant: the guard is production_quantity >= 0
NonNegativeQuantity(production_quantity) == ~Lt(production_quantity, Zero)

\* the guard of the four per-unit divisions: production_quantity > 0
PositiveQuantity(production_quantity) == Gt(production_quantity, Zero)

\* variant: floor division // in place of true division /
UnitCostFloorDiv(aggregate, production_quantity) ==
    IF PositiveQuantity(production_quantity)
    THEN IF DivRaises(aggregate, production_quantity)
         THEN [raised |-> "ZeroDivisionError", value |-> Zero]
         ELSE LET q == Div(aggregate, production_quantity)
              IN  [raised |-> "none", value |-> Num(q[1] \div q[2])]
    ELSE [raised |-> "none", value |-> Zero]

\* aggregate / production_quantity if production_quantity > 0 else 0
UnitCost(aggregate, production_quantity) ==
    IF PositiveQuantity(production_quantity)
    THEN TrueDiv(aggregate, production_quantity)
    ELSE [raised |-> "none", value |-> Zero]

\* the first exception among the outcomes, in evaluation order
FirstRaised(outcomes) ==
    IF \A i \in 1..Len(outcomes) : outcomes[i].raised = "none"
    THEN "none"
    ELSE LET i == CHOOSE j \in 1..Len(outcomes) :
                      /\ outcomes[j].raised # "none"
                      /\ \A k \in 1..(j - 1) : outcomes[k].raised = "none"
         IN  outcomes[i].raised

calculate_total_cost(raw_material_cost, packaging_cost, labor_cost, overhead_cost, production_quantity) ==
    LET material_cost == MaterialCostSum(raw_material_cost, packaging_cost)
        total_manufacturing_cost ==
            TotalManufacturingCost(material_cost, labor_cost, overhead_cost)
        unit_material_cost == UnitCost(material_cost, production_quantity)
        unit_labor_cost ==
            UnitCost(labor_cost.total_labor_cost, production_quantity)
        unit_overhead_cost ==
            UnitCost(overhead_cost.total_overhead, production_quantity)
        unit_manufacturing_cost ==
            UnitCost(total_manufacturing_cost, production_quantity)
        exc == FirstRaised(<<unit_material_cost, unit_labor_cost,
                             unit_overhead_cost, unit_manufacturing_cost>>)
    IN  [raised |-> exc,
         data |-> raw_material_cost,
         ret |-> IF exc # "none" THEN NoValue
                 ELSE [material_cost |-> material_cost,
                       labor_cost |-> labor_cost.total_labor_cost,
                       overhead_cost |-> overhead_cost.total_overhead,
                       total_manufacturing_cost |-> total_manufacturing_cost,
                       unit_material_cost |-> unit_material_cost.value,
                       unit_labor_cost |-> unit_labor_cost.value,
                       unit_overhead_cost |-> unit_overhead_cost.value,
                       unit_manufacturing_cost |->
                           unit_manufacturing_cost.value]]

CalculateTotalCost ==
    /\ Idle
    /\ \E rt \in RawTotals, pt \in PackagingTotals, lt \in LaborTotals,
          ot \in OverheadTotals, production_quantity \in ProductionQuantities :
        LET raw_material_cost == [total_cost |-> rt]
            packaging_cost == [total_cost |-> pt]
            labor_cost == [total_labor_cost |-> lt]
            overhead_cost == [total_overhead |-> ot]
            r == calculate_total_cost(raw_material_cost, packaging_cost,
                                      labor_cost, overhead_cost,
                                      production_quantity)
        IN
        /\ method' = "calculate_total_cost"
        /\ args' = [raw_material_cost |-> raw_material_cost,
                    packaging_cost |-> packaging_cost,
                    labor_cost |-> labor_cost,
                    overhead_cost |-> overhead_cost,
                    production_quantity |-> production_quantity]
        /\ data' = r.data
        /\ result' = r.ret
        /\ raised' = r.raised
        /\ UNCHANGED <<self, calls, frames, sheetVars>>

----------------------------------------------------------------------------
(* calculate_profit_and_pricing                                            *)

ManufacturingCosts == {Num(-40), Zero, Num(1000)}

ProfitMargins == {Num(-50), Zero, Num(30)}

SellingExpenses == {Zero, Num(500), Num(3000)}

NonOperatingExpenses == {Zero, Num(100)}

TaxRates == {Num(-5), Zero, Num(22)}

\* the literal 1.9 of wholesale_price = estimated_selling_price * 1.9
WholesaleMarkup == <<19, 10>>

\* total_cost['total_manufacturing_cost'] * (profit_margin / 100)
ProfitAmount(total_cost, profit_margin) ==
    Mul(total_cost.total_manufacturing_cost, Div(profit_margin, Hundred))

\* variant: the markup is 2
WholesalePriceDouble(estimated_selling_price) ==
    Mul(estimated_selling_price, Num(2))

\* estimated_selling_price * 1.9
WholesalePrice(estimated_selling_price) ==
    Mul(estimated_selling_price, WholesaleMarkup)

\* wholesale_price - total_cost['total_manufacturing_cost']
GrossProfit(wholesale_price, total_cost) ==
    Sub(wholesale_price, total_cost.total_manufacturing_cost)

\* variant: non_operating_expenses is added back instead of subtracted
NetProfitBeforeTaxAddingBack(gross_profit, selling_expenses, non_operating_expenses) ==
    Add(Sub(gross_profit, selling_expenses), non_operating_expenses)

\* gross_profit - selling_expenses - non_operating_expenses
NetProfitBeforeTax(gross_profit, selling_expenses, non_operating_expenses) ==
    Sub(Sub(gross_profit, selling_expenses), non_operating_expenses)

\* variant: the tax is floored at zero, max(0, ...)
CorporateTaxFloored(net_profit_before_tax, tax_rate) ==
    LET tax == Mul(net_profit_before_tax, Div(tax_rate, Hundred))
    IN  IF Lt(tax, Zero) THEN Zero ELSE tax

\* net_profit_before_tax * (tax_rate / 100)
CorporateTax(net_profit_before_tax, tax_rate) ==
    Mul(net_profit_before_tax, Div(tax_rate, Hundred))

\* variant: the tax is added to, not subtracted from, the pre-tax profit
NetProfitAddingTax(net_profit_before_tax, corporate_tax) ==
    Add(net_profit_before_tax, corporate_tax)

\* net_profit_before_tax - corporate_tax
NetProfit(net_profit_before_tax, corporate_tax) ==
    Sub(net_profit_before_tax, corporate_tax)

\* variant: the non_operating_expenses key is given selling_expenses
PricingFiguresExpensesMixedUp(total_cost, profit_margin, selling_expenses, non_operating_expenses, tax_rate) ==
    LET profit_amount == ProfitAmount(total_cost, profit_margin)
        estimated_selling_price ==
            Add(total_cost.total_manufacturing_cost, profit_amount)
        wholesale_price == WholesalePrice(estimated_selling_price)
        gross_profit == GrossProfit(wholesale_price, total_cost)
        net_profit_before_tax ==
            NetProfitBeforeTax(gross_profit, selling_expenses,
                               non_operating_expenses)
        corporate_tax == CorporateTax(net_profit_before_tax, tax_rate)
        net_profit == NetProfit(net_profit_before_tax, corporate_tax)
    IN  [profit_amount |-> profit_amount,
         estimated_selling_price |-> estimated_selling_price,
         wholesale_price |-> wholesale_price,
         gross_profit |-> gross_profit,
         selling_expenses |-> selling_expenses,
         non_operating_expenses |-> selling_expenses,
         net_profit_before_tax |-> net_profit_before_tax,
         corporate_tax |-> corporate_tax,
         net_profit |-> net_profit]

\* the body of the method: the nine figures of the returned mapping
PricingFigures(total_cost, profit_margin, selling_expenses, non_operating_expenses, tax_rate) ==
    LET profit_amount == ProfitAmount(total_cost, profit_margin)
        estimated_selling_price ==
            Add(total_cost.total_manufacturing_cost, profit_amount)
        wholesale_price == WholesalePrice(estimated_selling_price)
        gross_profit == GrossProfit(wholesale_price, total_cost)
        net_profit_before_tax ==
            NetProfitBeforeTax(gross_profit, selling_expenses,
                               non_operating_expenses)
        corporate_tax == CorporateTax(net_profit_before_tax, tax_rate)
        net_profit == NetProfit(net_profit_before_tax, corporate_tax)
    IN  [profit_amount |-> profit_amount,
         estimated_selling_price |-> estimated_selling_price,
         wholesale_price |-> wholesale_price,
         gross_profit |-> gross_profit,
         selling_expenses |-> selling_expenses,
         non_operating_expenses |-> non_operating_expenses,
         net_profit_before_tax |-> net_profit_before_tax,
         corporate_tax |-> corporate_tax,
         net_profit |-> net_profit]

\* variant: negative profit_margin or tax_rate is refused with ValueError
calculate_profit_and_pricing_validating(total_cost, profit_margin, selling_expenses, non_operating_expenses, tax_rate) ==
    IF Lt(profit_margin, Zero) \/ Lt(tax_rate, Zero)
    THEN [raised |-> "ValueError", data |-> total_cost, ret |-> NoValue]
    ELSE [raised |-> "none",
          data |-> total_cost,
          ret |-> PricingFigures(total_cost, profit_margin, selling_expenses,
                                 non_operating_expenses, tax_rate)]

\* the whole method: it has no raise statement and tests no parameter
calculate_profit_and_pricing(total_cost, profit_margin, selling_expenses, non_operating_expenses, tax_rate) ==
    [raised |-> "none",
     data |-> total_cost,
     ret |-> PricingFigures(total_cost, profit_margin, selling_expenses,
                            non_operating_expenses, tax_rate)]

CalculateProfitAndPricing ==
    /\ Idle
    /\ \E tmc \in ManufacturingCosts, profit_margin \in ProfitMargins,
          selling_expenses \in SellingExpenses,
          non_operating_expenses \in NonOperatingExpenses,
          tax_rate \in TaxRates :
        LET total_cost == [total_manufacturing_cost |-> tmc]
            r == calculate_profit_and_pricing(total_cost, profit_margin,
                     selling_expenses, non_operating_expenses, tax_rate)
        IN
        /\ method' = "calculate_profit_and_pricing"
        /\ args' = [total_cost |-> total_cost,
                    profit_margin |-> profit_margin,
                    selling_expenses |-> selling_expenses,
                    non_operating_expenses |-> non_operating_expenses,
                    tax_rate |-> tax_rate]
        /\ data' = r.data
        /\ result' = r.ret
        /\ raised' = r.raised
        /\ UNCHANGED <<self, calls, frames, sheetVars>>

----------------------------------------------------------------------------
(* The six calculation methods of CostCalculatorWithSheets                 *)
(* (src/cost_calculator_with_sheets.py), translated from that class's own  *)
(* text.  Each returns what the call raises, the first argument as the     *)
(* call leaves it, and the returned mapping.                               *)

\* the loop of calculate_raw_material_cost over the first n lines: the
\* lines so far and the two running totals
RECURSIVE WithSheets_RawMaterialLines(_, _)
WithSheets_RawMaterialLines(materials_data, n) ==
    IF n = 0
    THEN [lines |-> << >>, total_cost |-> Zero, total_weight |-> Zero]
    ELSE LET before == WithSheets_RawMaterialLines(materials_data, n - 1)
             material == materials_data[n]
         IN  IF /\ material.name # ""
                /\ Gt(material.ratio, Zero)
                /\ Gt(material.unit_price, Zero)
             THEN LET input_quantity ==
                          Mul(Div(material.ratio, Hundred),
                              material.base_quantity)
                      cost == Mul(input_quantity, material.unit_price)
                  IN  [lines |->
                           Append(before.lines,
                                  [f \in DOMAIN material \cup
                                         {"input_quantity", "cost"} |->
                                      IF f = "input_quantity"
                                      THEN input_quantity
                                      ELSE IF f = "cost" THEN cost
                                      ELSE material[f]]),
                       total_cost |-> Add(before.total_cost, cost),
                       total_weight |->
                           Add(before.total_weight, input_quantity)]
             ELSE [lines |->
                       Append(before.lines,
                              [f \in DOMAIN material \cup
                                     {"input_quantity", "cost"} |->
                                  IF f \in {"input_quantity", "cost"}
                                  THEN Zero ELSE material[f]]),
                   total_cost |-> before.total_cost,
                   total_weight |-> before.total_weight]

WithSheets_calculate_raw_material_cost(materials_data) ==
    LET end == WithSheets_RawMaterialLines(materials_data,
                                           Len(materials_data))
    IN  [raised |-> "none",
         data |-> end.lines,
         ret |-> [materials |-> end.lines,
                  total_cost |-> end.total_cost,
                  total_weight |-> end.total_weight,
                  avg_unit_price |->
                      IF Gt(end.total_weight, Zero)
                      THEN Div(end.total_cost, end.total_weight)
                      ELSE Zero]]

\* the loop of calculate_packaging_cost over the first n lines
RECURSIVE WithSheets_PackagingLines(_, _)
WithSheets_PackagingLines(packaging_data, n) ==
    IF n = 0
    THEN [lines |-> << >>, total_cost |-> Zero, total_weight |-> Zero]
    ELSE LET before == WithSheets_PackagingLines(packaging_data, n - 1)
             item == packaging_data[n]
             valid == /\ item.name # ""
                      /\ Gt(item.unit_price, Zero)
                      /\ Gt(item.quantity, Zero)
             cost == IF valid THEN Mul(item.unit_price, item.quantity)
                     ELSE Zero
             weight == IF valid THEN Mul(item.weight_per_unit, item.quantity)
                       ELSE Zero
         IN  [lines |->
                  Append(before.lines,
                         [f \in DOMAIN item \cup
                                {"total_cost", "total_weight"} |->
                             IF f = "total_cost" THEN cost
                             ELSE IF f = "total_weight" THEN weight
                             ELSE item[f]]),
              total_cost |-> Add(before.total_cost, cost),
              total_weight |-> Add(before.total_weight, weight)]

WithSheets_calculate_packaging_cost(packaging_data) ==
    LET end == WithSheets_PackagingLines(packaging_data, Len(packaging_data))
    IN  [raised |-> "none",
         data |-> end.lines,
         ret |-> [packaging |-> end.lines,
                  total_cost |-> end.total_cost,
                  total_weight |-> end.total_weight]]

\* variant: indirect_labor is left out of the sum
WithSheets_calculate_labor_cost_without_indirect(labor_data) ==
    [raised |-> "none",
     data |-> labor_data,
     ret |-> [direct_labor |-> labor_data.direct_labor,
              indirect_labor |-> labor_data.indirect_labor,
              temporary_labor |-> labor_data.temporary_labor,
              total_labor_cost |->
                  Add(labor_data.direct_labor, labor_data.temporary_labor)]]

WithSheets_calculate_labor_cost(labor_data) ==
    [raised |-> "none",
     data |-> labor_data,
     ret |-> [direct_labor |-> labor_data.direct_labor,
              indirect_labor |-> labor_data.indirect_labor,
              temporary_labor |-> labor_data.temporary_labor,
              total_labor_cost |->
                  Add(Add(labor_data.direct_labor, labor_data.indirect_labor),
                      labor_data.temporary_labor)]]

WithSheets_calculate_manufacturing_overhead(overhead_data) ==
    [raised |-> "none",
     data |-> overhead_data,
     ret |-> [other_expenses |-> overhead_data.other_expenses,
              welfare_expenses |-> overhead_data.welfare_expenses,
              depreciation |-> overhead_data.depreciation,
              total_overhead |->
                  Add(Add(overhead_data.other_expenses,
                          overhead_data.welfare_expenses),
                      overhead_data.depreciation)]]

\* x / production_quantity if production_quantity > 0 else 0
WithSheets_PerUnit(x, production_quantity) ==
    IF Gt(production_quantity, Zero) THEN Div(x, production_quantity)
    ELSE Zero

WithSheets_calculate_total_cost(raw_material_cost, packaging_cost, labor_cost, overhead_cost, production_quantity) ==
    LET material_cost ==
            Add(raw_material_cost.total_cost, packaging_cost.total_cost)
        total_manufacturing_cost ==
            Add(Add(material_cost, labor_cost.total_labor_cost),
                overhead_cost.total_overhead)
    IN  [raised |-> "none",
         data |-> raw_material_cost,
         ret |-> [material_cost |-> material_cost,
                  labor_cost |-> labor_cost.total_labor_cost,
                  overhead_cost |-> overhead_cost.total_overhead,
                  total_manufacturing_cost |-> total_manufacturing_cost,
                  unit_material_cost |->
                      WithSheets_PerUnit(material_cost, production_quantity),
                  unit_labor_cost |->
                      WithSheets_PerUnit(labor_cost.total_labor_cost,
                                         production_quantity),
                  unit_overhead_cost |->
                      WithSheets_PerUnit(overhead_cost.total_overhead,
                                         production_quantity),
                  unit_manufacturing_cost |->
                      WithSheets_PerUnit(total_manufacturing_cost,
                                         production_quantity)]]

WithSheets_calculate_profit_and_pricing(total_cost, profit_margin, selling_expenses, non_operating_expenses, tax_rate) ==
    LET tmc == total_cost.total_manufacturing_cost
        profit_amount == Mul(tmc, Div(profit_margin, Hundred))
        estimated_selling_price == Add(tmc, profit_amount)
        wholesale_price == Mul(estimated_selling_price, <<19, 10>>)
        gross_profit == Sub(wholesale_price, tmc)
        net_profit_before_tax ==
            Sub(Sub(gross_profit, selling_expenses), non_operating_expenses)
        corporate_tax == Mul(net_profit_before_tax, Div(tax_rate, Hundred))
        net_profit == Sub(net_profit_before_tax, corporate_tax)
    IN  [raised |-> "none",
         data |-> total_cost,
         ret |-> [profit_amount |-> profit_amount,
                  estimated_selling_price |-> estimated_selling_price,
                  wholesale_price |-> wholesale_price,
                  gross_profit |-> gross_profit,
                  selling_expenses |-> selling_expenses,
                  non_operating_expenses |-> non_operating_expenses,
                  net_profit_before_tax |-> net_profit_before_tax,
                  corporate_tax |-> corporate_tax,
                  net_profit |-> net_profit]]
----------------------------------------------------------------------------

Next ==
    \/ NewCalculator
    \/ CalculateRawMaterialCost
    \/ CalculatePackagingCost
    \/ CalculateLaborCost
    \/ CalculateManufacturingOverhead
    \/ MainLabor
    \/ CalculateTotalCost
    \/ CalculateProfitAndPricing
    \/ CalculateRawMaterialCostAgain
    \/ CalculatePackagingCostAgain

Spec == Init /\ [][Next]_vars

----------------------------------------------------------------------------
(* Two calls of the line methods at once, interleaved per loop iteration   *)

ConcurrentMaterialLines ==
    {[name |-> "A", ratio |-> <<185, 2>>, unit_price |-> Num(3),
      base_quantity |-> Num(1000)],
     [name |-> "A", ratio |-> <<185, 2>>, unit_price |-> Num(8),
      base_quantity |-> Num(1000)],
     [name |-> "", ratio |-> <<185, 2>>, unit_price |-> Num(3),
      base_quantity |-> Num(1000)]}

ConcurrentPackagingLines ==
    {[name |-> "Pouch", unit_price |-> Num(197), quantity |-> Num(2703),
      weight_per_unit |-> <<2, 5>>],
     [name |-> "Pouch", unit_price |-> Num(197), quantity |-> Zero,
      weight_per_unit |-> <<2, 5>>]}

\* variant: total_cost and total_weight are kept in one place for all calls
FrameShared(t) == 1

\* total_cost and total_weight are local variables: each call has its own
Frame(t) == t

\* the loop state of call t: its list and its frame's running totals
LoopState(t) ==
    IF calls[t].method = "calculate_raw_material_cost"
    THEN [materials |-> calls[t].lines,
          total_cost |-> frames[Frame(t)].total_cost,
          total_weight |-> frames[Frame(t)].total_weight]
    ELSE [packaging |-> calls[t].lines,
          total_cost |-> frames[Frame(t)].total_cost,
          total_weight |-> frames[Frame(t)].total_weight]

\* another call is between two iterations of its loop
OtherInLoop(t) ==
    \E u \in Threads \ {t} :
        /\ calls[u].pc = "loop"
        /\ calls[u].i > 1
        /\ calls[u].i <= Len(calls[u].lines)

\* a call begins on a list of its own: total_cost = 0; total_weight = 0
BeginCall ==
    \E t \in Threads :
        /\ calls[t].pc = "idle"
        /\ \E m \in {"calculate_raw_material_cost", "calculate_packaging_cost"} :
           \E list \in IF m = "calculate_raw_material_cost"
                       THEN ListsUpTo(ConcurrentMaterialLines, MaxLines)
                       ELSE ListsUpTo(ConcurrentPackagingLines, MaxLines) :
              LET st == IF m = "calculate_raw_material_cost"
                        THEN RawMaterialStart(list)
                        ELSE PackagingStart(list)
              IN
              /\ calls' = [calls EXCEPT ![t] =
                              [pc |-> "loop", method |-> m, input |-> list,
                               lines |-> list, i |-> 1, raised |-> "none",
                               ret |-> NoValue, overlapped |-> FALSE]]
              /\ frames' = [frames EXCEPT ![Frame(t)] =
                               [total_cost |-> st.total_cost,
                                total_weight |-> st.total_weight]]
        /\ UNCHANGED <<self, method, args, data, result, raised, sheetVars>>

\* one iteration of the for loop of a call
StepLine ==
    \E t \in Threads :
        /\ calls[t].pc = "loop"
        /\ calls[t].i <= Len(calls[t].lines)
        /\ LET raw == calls[t].method = "calculate_raw_material_cost"
               st == IF raw THEN RawMaterialStep(LoopState(t), calls[t].i)
                     ELSE PackagingStep(LoopState(t), calls[t].i)
           IN
           /\ calls' = [calls EXCEPT
                           ![t].lines = IF raw THEN st.materials
                                        ELSE st.packaging,
                           ![t].i = @ + 1,
                           ![t].overlapped = @ \/ OtherInLoop(t)]
           /\ frames' = [frames EXCEPT ![Frame(t)] =
                            [total_cost |-> st.total_cost,
                             total_weight |-> st.total_weight]]
        /\ UNCHANGED <<self, method, args, data, result, raised, sheetVars>>

\* the return statement of a call whose loop has ended
ReturnCall ==
    \E t \in Threads :
        /\ calls[t].pc = "loop"
        /\ calls[t].i > Len(calls[t].lines)
        /\ LET r == IF calls[t].method = "calculate_raw_material_cost"
                    THEN RawMaterialReturn(LoopState(t))
                    ELSE PackagingReturn(LoopState(t))
           IN  calls' = [calls EXCEPT ![t].pc = "done",
                                      ![t].raised = r.raised,
                                      ![t].ret = r.ret]
        /\ UNCHANGED <<self, method, args, data, result, raised, frames, sheetVars>>

NextConcurrent ==
    \/ BeginCall
    \/ StepLine
    \/ ReturnCall

SpecConcurrent == Init /\ [][NextConcurrent]_vars

----------------------------------------------------------------------------
(* The Google Sheets layer (src/google_sheets_manager.py).  The sheet is   *)
(* the list of its rows, a row the list of its cells.  The gspread and     *)
(* pandas calls of the code are modelled by what they do to these rows.    *)

\* most rows of a table handed to write_data or append_data, and most rows
\* of the sheet below its first row
MaxRows == 2

\* a Python str, as its characters
Str(chars) == [type |-> "str", chars |-> chars]

\* a Python int (not negative), as its decimal digits
IntOf(digits) == [type |-> "int", chars |-> digits]

Digits == {"0", "1", "2", "3", "4", "5", "6", "7", "8", "9"}

\* the name of the product sheet's id column
IdColumn == <<"I", "D">>

\* the values of the id column: the strings "007" and "P1"
CellValues == {Str(<<"0", "0", "7">>), Str(<<"P", "1">>)}

\* the product_id a caller looks for: 7, "P1", "007"
ProductIds == {IntOf(<<"7">>), Str(<<"P", "1">>), Str(<<"0", "0", "7">>)}

ProductRows == {<<c>> : c \in CellValues}

\* pd.DataFrame(): no columns, no rows
EmptyTable == [columns |-> << >>, rows |-> << >>]

\* the tables handed to write_data and append_data
Tables ==
    {EmptyTable} \cup
    {[columns |-> <<IdColumn>>, rows |-> rows] :
        rows \in ListsUpTo(ProductRows, MaxRows)}

\* DataFrame.empty
IsEmptyTable(table) == Len(table.columns) = 0 \/ Len(table.rows) = 0

\* the row of a table's column names, data.columns.tolist()
HeaderRow(table) == [j \in 1..Len(table.columns) |-> Str(table.columns[j])]

\* the rows a sheet may hold when the run begins: none, or the header and
\* two products
InitialWorksheets ==
    {<< >>,
     <<<<Str(IdColumn)>>, <<Str(<<"0", "0", "7">>)>>, <<Str(<<"P", "1">>)>>>>}

\* int("007") is 7: the digits without the leading zeros
RECURSIVE StripZeros(_)
StripZeros(digits) ==
    IF Len(digits) > 1 /\ Head(digits) = "0" THEN StripZeros(Tail(digits))
    ELSE digits

IsDecimal(chars) ==
    chars # << >> /\ \A i \in 1..Len(chars) : chars[i] \in Digits

\* gspread's numericise, which get_all_records applies to every cell below
\* the first row: text that int() accepts comes back as that int
Numericise(chars) ==
    IF IsDecimal(chars) THEN IntOf(StripZeros(chars)) ELSE Str(chars)

\* worksheet.get_all_records(): the first row gives the keys, every later
\* row one record; a sheet of at most one row gives no record
get_all_records(rows) ==
    IF rows = << >> THEN << >>
    ELSE [i \in 1..(Len(rows) - 1) |->
             [keys |-> [j \in 1..Len(rows[1]) |-> rows[1][j].chars],
              values |-> [j \in 1..Len(rows[i + 1]) |->
                             Numericise(rows[i + 1][j].chars)]]]

\* pd.DataFrame(records)
DataFrame(records) ==
    IF Len(records) = 0 THEN EmptyTable
    ELSE [columns |-> records[1].keys,
          rows |-> [i \in 1..Len(records) |-> records[i].values]]

(* An API call of gspread may raise (no network, no such sheet, quota).   *)
(* Each method below takes fail, the number of the API call of this run    *)
(* that raises, counted from 1, or 0 when none does.  A method's outcome   *)
(* is what it raises, what it returns and what it leaves behind.           *)

\* authenticate: call 1 is Credentials.from_service_account_file, call 2
\* gspread.authorize
authenticate(obj, fail) ==
    IF fail = 1
    THEN [raised |-> "none", ret |-> FALSE, obj |-> obj]
    ELSE IF fail = 2
    THEN [raised |-> "none", ret |-> FALSE,
          obj |-> [obj EXCEPT !.credentials = "Credentials"]]
    ELSE [raised |-> "none", ret |-> TRUE,
          obj |-> [obj EXCEPT !.credentials = "Credentials",
                              !.client = "Client"]]

\* variant: the except clause is left out, so that None.open_by_key raises
open_spreadsheet_propagating(obj, fail) ==
    IF obj.client = None
    THEN [raised |-> "AttributeError", ret |-> NoValue, obj |-> obj]
    ELSE IF fail = 1
    THEN [raised |-> "Exception", ret |-> NoValue, obj |-> obj]
    ELSE [raised |-> "none", ret |-> TRUE,
          obj |-> [obj EXCEPT !.spreadsheet = "Spreadsheet"]]

\* open_spreadsheet: call 1 is self.client.open_by_key, which raises
\* AttributeError when client is None; every exception is caught
open_spreadsheet(obj, fail) ==
    IF obj.client = None \/ fail = 1
    THEN [raised |-> "none", ret |-> FALSE, obj |-> obj]
    ELSE [raised |-> "none", ret |-> TRUE,
          obj |-> [obj EXCEPT !.spreadsheet = "Spreadsheet"]]

\* get_worksheet: call 1 is self.spreadsheet.worksheet, which raises
\* AttributeError when spreadsheet is None; every exception is caught
get_worksheet(obj, fail) ==
    IF obj.spreadsheet = None \/ fail = 1 THEN None ELSE "Worksheet"

\* read_data: call 1 is get_worksheet's, call 2 get_all_records
read_data(obj, rows, fail) ==
    LET ws == get_worksheet(obj, fail) IN
    IF ws # None
    THEN IF fail = 2 THEN EmptyTable
         ELSE DataFrame(get_all_records(rows))
    ELSE EmptyTable

\* the rows write_data appends after clear(): the header and the rows of
\* the table, or nothing when the table is empty
RowsToWrite(table) ==
    IF ~IsEmptyTable(table) THEN <<HeaderRow(table)>> \o table.rows
    ELSE << >>

\* write_data: call 1 is get_worksheet's, call 2 clear, calls 3, 4, ... the
\* append_row of the header and of each row
write_data(obj, rows, table, fail) ==
    LET ws == get_worksheet(obj, fail) IN
    IF ws # None
    THEN IF fail = 2 THEN [ret |-> FALSE, rows |-> rows]
         ELSE IF fail = 0 THEN [ret |-> TRUE, rows |-> RowsToWrite(table)]
         ELSE [ret |-> FALSE,
               rows |-> SubSeq(RowsToWrite(table), 1, fail - 3)]
    ELSE [ret |-> FALSE, rows |-> rows]

\* append_data: call 1 is get_worksheet's, calls 2, 3, ... the append_row
\* of each row
append_data(obj, rows, table, fail) ==
    LET ws == get_worksheet(obj, fail) IN
    IF ws # None
    THEN IF fail = 0 THEN [ret |-> TRUE, rows |-> rows \o table.rows]
         ELSE [ret |-> FALSE,
               rows |-> rows \o SubSeq(table.rows, 1, fail - 2)]
    ELSE [ret |-> FALSE, rows |-> rows]

\* the sheet with row n (counted from 1) set to values; n is at most one
\* past the last row
RowUpdated(rows, n, values) ==
    IF n <= Len(rows) THEN [rows EXCEPT ![n] = values]
    ELSE Append(rows, values)

\* the sheet without row n
RowDeleted(rows, n) ==
    IF n <= Len(rows)
    THEN SubSeq(rows, 1, n - 1) \o SubSeq(rows, n + 1, Len(rows))
    ELSE rows

\* update_row: call 1 is get_worksheet's, call 2 worksheet.update at
\* 'A{row_index + 2}'
update_row(obj, rows, row_index, values, fail) ==
    LET ws == get_worksheet(obj, fail) IN
    IF ws # None
    THEN IF fail = 2 THEN [ret |-> FALSE, rows |-> rows]
         ELSE [ret |-> TRUE,
               rows |-> RowUpdated(rows, row_index + 2, values)]
    ELSE [ret |-> FALSE, rows |-> rows]

\* delete_row: call 1 is get_worksheet's, call 2
\* worksheet.delete_rows(row_index + 2)
delete_row(obj, rows, row_index, fail) ==
    LET ws == get_worksheet(obj, fail) IN
    IF ws # None
    THEN IF fail = 2 THEN [ret |-> FALSE, rows |-> rows]
         ELSE [ret |-> TRUE, rows |-> RowDeleted(rows, row_index + 2)]
    ELSE [ret |-> FALSE, rows |-> rows]

\* the product rows a caller hands to update_product, as the values of
\* pd.DataFrame([product_data]).iloc[0]
ProductData == ProductRows

\* the positions (counted from 0, as the DataFrame's index) of the records
\* whose id column equals product_id
MatchingIndex(table, product_id) ==
    LET col == CHOOSE j \in 1..Len(table.columns) :
                   table.columns[j] = IdColumn
    IN  {i - 1 : i \in {k \in 1..Len(table.rows) :
                          table.rows[k][col] = product_id}}

\* row_index[0]
First(indices) == CHOOSE i \in indices : \A k \in indices : i <= k

\* the look-up both product methods begin with: products_df['id column']
\* raises KeyError when the table read has records but no such column
LookUp(table, product_id) ==
    IF IsEmptyTable(table)
    THEN [raised |-> "none", found |-> FALSE, row_index |-> 0]
    ELSE IF \A j \in 1..Len(table.columns) : table.columns[j] # IdColumn
    THEN [raised |-> "KeyError", found |-> FALSE, row_index |-> 0]
    ELSE LET row_index == MatchingIndex(table, product_id) IN
         IF row_index # {}
         THEN [raised |-> "none", found |-> TRUE,
               row_index |-> First(row_index)]
         ELSE [raised |-> "none", found |-> FALSE, row_index |-> 0]

\* ProductManager.update_product; fail_read is for get_products' read_data,
\* fail_update for update_row
update_product(obj, rows, product_id, product_data, fail_read, fail_update) ==
    LET products_df == read_data(obj, rows, fail_read)
        at == LookUp(products_df, product_id)
    IN  IF at.raised # "none"
        THEN [raised |-> at.raised, ret |-> NoValue, rows |-> rows]
        ELSE IF at.found
        THEN LET r == update_row(obj, rows, at.row_index, product_data,
                                 fail_update)
             IN  [raised |-> "none", ret |-> r.ret, rows |-> r.rows]
        ELSE [raised |-> "none", ret |-> FALSE, rows |-> rows]

\* ProductManager.delete_product
delete_product(obj, rows, product_id, fail_read, fail_delete) ==
    LET products_df == read_data(obj, rows, fail_read)
        at == LookUp(products_df, product_id)
    IN  IF at.raised # "none"
        THEN [raised |-> at.raised, ret |-> NoValue, rows |-> rows]
        ELSE IF at.found
        THEN LET r == delete_row(obj, rows, at.row_index, fail_delete)
             IN  [raised |-> "none", ret |-> r.ret, rows |-> r.rows]
        ELSE [raised |-> "none", ret |-> FALSE, rows |-> rows]

\* variant: the managers are made whether or not there is a client
initialize_managers_unguarded(obj) ==
    [obj EXCEPT !.product_manager = "ProductManager",
                !.material_manager = "MaterialManager",
                !.calculation_manager = "CostCalculationManager"]

\* CostCalculatorWithSheets.initialize_managers
initialize_managers(obj) ==
    IF obj.client # None
    THEN [obj EXCEPT !.product_manager = "ProductManager",
                     !.material_manager = "MaterialManager",
                     !.calculation_manager = "CostCalculationManager"]
    ELSE obj

\* the record of a call made now: its name, arguments and outcome, the
\* API call that raised, the rows the sheet held and what had succeeded
Called(name, arguments, ret, exception, fail) ==
    [name |-> name, args |-> arguments, ret |-> ret, raised |-> exception,
     fail |-> fail, before |-> worksheet,
     authenticated |-> history.authenticated, opened |-> history.opened]

\* with no spreadsheet opened the first call of a method, made on None,
\* always raises
Possible(fail) == sheets.spreadsheet = None => fail = 1

\* the sheet has room for n more rows
Room(n) == Len(worksheet) + n <= MaxRows + 1

InitSheets ==
    /\ self = CostCalculator_init
    /\ method = "none"
    /\ args = NoValue
    /\ data = NoValue
    /\ result = NoValue
    /\ raised = "none"
    /\ calls = [t \in Threads |-> NoCall]
    /\ frames = [t \in Threads |-> NoFrame]
    /\ sheets = CostCalculatorWithSheets_init
    /\ worksheet \in InitialWorksheets
    /\ last = NoOperation
    /\ history = NoHistory

\* calculator = CostCalculatorWithSheets() on a rerun of main(): a new
\* object, the sheet as it is
NewCalculatorWithSheets ==
    /\ last # NoOperation
    /\ sheets' = CostCalculatorWithSheets_init
    /\ last' = NoOperation
    /\ history' = NoHistory
    /\ UNCHANGED <<worksheet, engineVars>>

Authenticate ==
    \E fail \in 0..2 :
        LET r == authenticate(sheets, fail) IN
        /\ sheets' = r.obj
        /\ last' = Called("authenticate", NoValue, r.ret, r.raised, <<fail>>)
        /\ history' = [history EXCEPT
                          !.authenticated = @ \/ (r.raised = "none" /\ r.ret)]
        /\ UNCHANGED <<worksheet, engineVars>>

OpenSpreadsheet ==
    \E fail \in 0..1 :
        LET r == open_spreadsheet(sheets, fail) IN
        /\ sheets' = r.obj
        /\ last' = Called("open_spreadsheet", NoValue, r.ret, r.raised,
                          <<fail>>)
        /\ history' = [history EXCEPT
                          !.opened = @ \/ (r.raised = "none" /\ r.ret)]
        /\ UNCHANGED <<worksheet, engineVars>>

InitializeManagers ==
    /\ sheets' = initialize_managers(sheets)
    /\ last' = Called("initialize_managers", NoValue, None, "none", << >>)
    /\ history' = [history EXCEPT !.initialized = TRUE]
    /\ UNCHANGED <<worksheet, engineVars>>

GetWorksheet ==
    \E fail \in 0..1 :
        /\ Possible(fail)
        /\ last' = Called("get_worksheet", NoValue,
                          get_worksheet(sheets, fail), "none", <<fail>>)
        /\ UNCHANGED <<sheets, worksheet, history, engineVars>>

ReadData ==
    \E fail \in 0..2 :
        /\ Possible(fail)
        /\ last' = Called("read_data", NoValue,
                          read_data(sheets, worksheet, fail), "none",
                          <<fail>>)
        /\ UNCHANGED <<sheets, worksheet, history, engineVars>>

WriteData ==
    \E table \in Tables :
        \E fail \in 0..(2 + Len(RowsToWrite(table))) :
            LET r == write_data(sheets, worksheet, table, fail) IN
            /\ Possible(fail)
            /\ worksheet' = r.rows
            /\ last' = Called("write_data", [data |-> table], r.ret, "none",
                              <<fail>>)
            /\ UNCHANGED <<sheets, history, engineVars>>

AppendData ==
    \E table \in Tables :
        /\ Room(Len(table.rows))
        /\ \E fail \in 0..(1 + Len(table.rows)) :
            LET r == append_data(sheets, worksheet, table, fail) IN
            /\ Possible(fail)
            /\ worksheet' = r.rows
            /\ last' = Called("append_data", [data |-> table], r.ret, "none",
                              <<fail>>)
            /\ UNCHANGED <<sheets, history, engineVars>>

UpdateRow ==
    \E row_index \in 0..(MaxRows - 1), values \in ProductData,
       fail \in 0..2 :
        /\ Possible(fail)
        /\ row_index + 2 <= Len(worksheet) + 1
        /\ LET r == update_row(sheets, worksheet, row_index, values, fail) IN
            /\ worksheet' = r.rows
            /\ last' = Called("update_row",
                              [row_index |-> row_index, data |-> values],
                              r.ret, "none", <<fail>>)
            /\ UNCHANGED <<sheets, history, engineVars>>

DeleteRow ==
    \E row_index \in 0..(MaxRows - 1), fail \in 0..2 :
        /\ Possible(fail)
        /\ row_index + 2 <= Len(worksheet) + 1
        /\ LET r == delete_row(sheets, worksheet, row_index, fail) IN
            /\ worksheet' = r.rows
            /\ last' = Called("delete_row", [row_index |-> row_index],
                              r.ret, "none", <<fail>>)
            /\ UNCHANGED <<sheets, history, engineVars>>

UpdateProduct ==
    /\ sheets.product_manager # None
    /\ \E product_id \in ProductIds, product_data \in ProductData,
          fail_read \in 0..2, fail_update \in 0..2 :
        LET r == update_product(sheets, worksheet, product_id, product_data,
                                fail_read, fail_update)
        IN  /\ Possible(fail_read)
            /\ worksheet' = r.rows
            /\ last' = Called("update_product",
                              [product_id |-> product_id,
                               product_data |-> product_data],
                              r.ret, r.raised, <<fail_read, fail_update>>)
            /\ UNCHANGED <<sheets, history, engineVars>>

DeleteProduct ==
    /\ sheets.product_manager # None
    /\ \E product_id \in ProductIds, fail_read \in 0..2,
          fail_delete \in 0..2 :
        LET r == delete_product(sheets, worksheet, product_id, fail_read,
                                fail_delete)
        IN  /\ Possible(fail_read)
            /\ worksheet' = r.rows
            /\ last' = Called("delete_product", [product_id |-> product_id],
                              r.ret, r.raised, <<fail_read, fail_delete>>)
            /\ UNCHANGED <<sheets, history, engineVars>>

NextSheets ==
    \/ NewCalculatorWithSheets
    \/ Authenticate
    \/ OpenSpreadsheet
    \/ InitializeManagers
    \/ GetWorksheet
    \/ ReadData
    \/ WriteData
    \/ AppendData
    \/ UpdateRow
    \/ DeleteRow
    \/ UpdateProduct
    \/ DeleteProduct

SpecSheets == InitSheets /\ [][NextSheets]_vars

----------------------------------------------------------------------------
(* Properties of calculate_raw_material_cost                               *)

RawReturned == method = "calculate_raw_material_cost" /\ raised = "none"

\* the sum of field f over the lines of a list
RECURSIVE SumField(_, _)
SumField(lines, f) ==
    IF lines = << >> THEN Zero
    ELSE Add(lines[1][f], SumField(Tail(lines), f))

\* C1: calculate_raw_material_cost annotates every line of its input: a
\* line with a non-empty name, ratio > 0 and unit_price > 0 gets
\* input_quantity = ratio/100 * base_quantity and
\* cost = input_quantity * unit_price; every other line gets
\* input_quantity = 0 and cost = 0.
C1_LinesAnnotated ==
    method = "calculate_raw_material_cost" =>
        /\ raised = "none"
        /\ Len(result.materials) = Len(args.materials_data)
        /\ \A i \in 1..Len(args.materials_data) :
              LET line == args.materials_data[i]
                  out == result.materials[i]
              IN  /\ {"input_quantity", "cost"} \subseteq DOMAIN out
                  /\ IF /\ line.name # ""
                        /\ Gt(line.ratio, Zero)
                        /\ Gt(line.unit_price, Zero)
                     THEN /\ out.input_quantity =
                               Mul(Div(line.ratio, Num(100)),
                                   line.base_quantity)
                          /\ out.cost =
                               Mul(out.input_quantity, line.unit_price)
                     ELSE /\ out.input_quantity = Zero
                          /\ out.cost = Zero

\* a call on a list holding a line that is costed (non-zero cost) and a line
\* that is zeroed although its ratio, price and base quantity are positive
C1_Witness ==
    /\ RawReturned
    /\ \E i, j \in 1..Len(args.materials_data) :
          /\ result.materials[i].cost # Zero
          /\ args.materials_data[j].name = ""
          /\ Gt(args.materials_data[j].ratio, Zero)
          /\ Gt(args.materials_data[j].unit_price, Zero)
          /\ Gt(args.materials_data[j].base_quantity, Zero)
          /\ result.materials[j].cost = Zero

\* C2: for every material list, total_cost is the sum of the returned
\* lines' cost and total_weight the sum of their input_quantity.
C2_TotalsAreSums ==
    RawReturned =>
        /\ result.total_cost = SumField(result.materials, "cost")
        /\ result.total_weight = SumField(result.materials, "input_quantity")

\* a call on a list with a costed line and one more line, where the total
\* cost differs from the total weight
C2_Witness ==
    /\ RawReturned
    /\ Len(result.materials) >= 2
    /\ \E i \in 1..Len(result.materials) :
          /\ result.materials[i].cost # Zero
          /\ result.total_cost # result.materials[i].cost
    /\ result.total_cost # result.total_weight

----------------------------------------------------------------------------
(* Properties of calculate_total_cost                                      *)

TotalCalled == method = "calculate_total_cost"

TotalReturned == TotalCalled /\ raised = "none"

\* the aggregate fields of a calculate_total_cost result
Aggregates(r) ==
    <<r.material_cost, r.labor_cost, r.overhead_cost,
      r.total_manufacturing_cost>>

\* C4: with production_quantity <= 0 calculate_total_cost raises nothing,
\* returns the four unit_* values as 0, and returns the four aggregate
\* values that the same inputs give with a positive quantity.
C4_NonPositiveQuantity ==
    (TotalCalled /\ ~Gt(args.production_quantity, Zero)) =>
        /\ raised = "none"
        /\ result.unit_material_cost = Zero
        /\ result.unit_labor_cost = Zero
        /\ result.unit_overhead_cost = Zero
        /\ result.unit_manufacturing_cost = Zero
        /\ \A q \in {p \in ProductionQuantities : Gt(p, Zero)} :
              LET other == calculate_total_cost(args.raw_material_cost,
                               args.packaging_cost, args.labor_cost,
                               args.overhead_cost, q)
              IN  /\ other.raised = "none"
                  /\ Aggregates(result) = Aggregates(other.ret)

\* a call with quantity 0 and non-zero material, labor and overhead costs
C4_Witness ==
    /\ TotalReturned
    /\ args.production_quantity = Zero
    /\ result.material_cost # Zero
    /\ result.labor_cost # Zero
    /\ result.overhead_cost # Zero

\* C6: material_cost = raw.total_cost + packaging.total_cost,
\* labor_cost = labor.total_labor_cost, overhead_cost =
\* overhead.total_overhead and total_manufacturing_cost =
\* material_cost + labor_cost + overhead_cost.
C6_Aggregates ==
    TotalReturned =>
        /\ result.material_cost =
              Add(args.raw_material_cost.total_cost,
                  args.packaging_cost.total_cost)
        /\ result.labor_cost = args.labor_cost.total_labor_cost
        /\ result.overhead_cost = args.overhead_cost.total_overhead
        /\ result.total_manufacturing_cost =
              Add(Add(result.material_cost, result.labor_cost),
                  result.overhead_cost)

\* a call in which all four input totals are non-zero
C6_Witness ==
    /\ TotalReturned
    /\ args.raw_material_cost.total_cost # Zero
    /\ args.packaging_cost.total_cost # Zero
    /\ args.labor_cost.total_labor_cost # Zero
    /\ args.overhead_cost.total_overhead # Zero

\* C7: with production_quantity > 0 each unit_* value is its aggregate
\* divided by production_quantity.
C7_UnitValues ==
    (TotalCalled /\ Gt(args.production_quantity, Zero)) =>
        /\ raised = "none"
        /\ result.unit_material_cost =
              Div(result.material_cost, args.production_quantity)
        /\ result.unit_labor_cost =
              Div(result.labor_cost, args.production_quantity)
        /\ result.unit_overhead_cost =
              Div(result.overhead_cost, args.production_quantity)
        /\ result.unit_manufacturing_cost =
              Div(result.total_manufacturing_cost, args.production_quantity)

\* a call with a quantity above 1 that does not divide the total
C7_Witness ==
    /\ TotalReturned
    /\ Gt(args.production_quantity, Num(1))
    /\ result.unit_manufacturing_cost[2] # 1
    /\ result.unit_material_cost # Zero

----------------------------------------------------------------------------
(* Properties of calculate_profit_and_pricing                              *)

PricingCalled == method = "calculate_profit_and_pricing"

PricingReturned == PricingCalled /\ raised = "none"

\* C3: net_profit = gross_profit - selling_expenses -
\* non_operating_expenses - corporate_tax and corporate_tax =
\* (gross_profit - selling_expenses - non_operating_expenses) * tax_rate/100,
\* for any inputs, a negative gross_profit included.
C3_Waterfall ==
    PricingReturned =>
        /\ result.net_profit =
              Sub(Sub(Sub(result.gross_profit, result.selling_expenses),
                      result.non_operating_expenses),
                  result.corporate_tax)
        /\ result.corporate_tax =
              Div(Mul(Sub(Sub(result.gross_profit, args.selling_expenses),
                          args.non_operating_expenses),
                      args.tax_rate),
                  Num(100))

\* a call whose gross_profit is negative, with expenses and a non-zero tax
C3_Witness ==
    /\ PricingReturned
    /\ Lt(result.gross_profit, Zero)
    /\ args.selling_expenses # Zero
    /\ args.non_operating_expenses # Zero
    /\ result.corporate_tax # Zero

\* a negative tax rate or a negative profit margin was passed
NegativeParameter ==
    /\ PricingCalled
    /\ Lt(args.tax_rate, Zero) \/ Lt(args.profit_margin, Zero)

\* C5 as claimed: a call with a negative tax rate or a negative profit
\* margin is rejected with an error instead of returning money figures.
C5_Rejected ==
    NegativeParameter => raised # "none"

\* C5: calculate_profit_and_pricing tests no parameter: a call with a
\* negative tax rate or a negative profit margin raises nothing and returns
\* the figures of the usual formulas, profit_amount =
\* total_manufacturing_cost * profit_margin/100 and corporate_tax =
\* net_profit_before_tax * tax_rate/100 among them.
C5_NegativeParametersAccepted ==
    NegativeParameter =>
        /\ raised = "none"
        /\ result.profit_amount =
              Div(Mul(args.total_cost.total_manufacturing_cost,
                      args.profit_margin), Num(100))
        /\ result.corporate_tax =
              Div(Mul(result.net_profit_before_tax, args.tax_rate), Num(100))

\* a call with both parameters negative that returns a negative
\* profit_amount and a non-zero corporate_tax
C5_Witness ==
    /\ PricingReturned
    /\ Lt(args.tax_rate, Zero)
    /\ Lt(args.profit_margin, Zero)
    /\ Lt(result.profit_amount, Zero)
    /\ result.corporate_tax # Zero

\* C8: profit_amount = total_manufacturing_cost * profit_margin/100,
\* estimated_selling_price = total_manufacturing_cost + profit_amount and
\* wholesale_price = estimated_selling_price * 1.9.
C8_Pricing ==
    PricingReturned =>
        /\ result.profit_amount =
              Div(Mul(args.total_cost.total_manufacturing_cost,
                      args.profit_margin), Num(100))
        /\ result.estimated_selling_price =
              Add(args.total_cost.total_manufacturing_cost,
                  result.profit_amount)
        /\ result.wholesale_price =
              Div(Mul(result.estimated_selling_price, Num(19)), Num(10))

\* a call with a positive cost and a positive margin
C8_Witness ==
    /\ PricingReturned
    /\ Gt(args.total_cost.total_manufacturing_cost, Zero)
    /\ Gt(result.profit_amount, Zero)
    /\ Gt(result.wholesale_price, result.estimated_selling_price)

\* C9: gross_profit = wholesale_price - total_manufacturing_cost and
\* net_profit_before_tax = gross_profit - selling_expenses -
\* non_operating_expenses.
C9_Profits ==
    PricingReturned =>
        /\ result.gross_profit =
              Sub(result.wholesale_price,
                  args.total_cost.total_manufacturing_cost)
        /\ result.net_profit_before_tax =
              Sub(result.gross_profit,
                  Add(args.selling_expenses, args.non_operating_expenses))

\* a call with both expenses non-zero and a positive pre-tax profit
C9_Witness ==
    /\ PricingReturned
    /\ args.selling_expenses # Zero
    /\ args.non_operating_expenses # Zero
    /\ Gt(result.gross_profit, Zero)
    /\ Gt(result.net_profit_before_tax, Zero)

\* C10: corporate_tax has no floor at zero: whenever
\* net_profit_before_tax < 0 and tax_rate > 0 the returned corporate_tax is
\* negative and equals net_profit_before_tax * tax_rate/100, and
\* net_profit = net_profit_before_tax - corporate_tax.
C10_NoTaxFloor ==
    (/\ PricingReturned
     /\ Lt(result.net_profit_before_tax, Zero)
     /\ Gt(args.tax_rate, Zero)) =>
        /\ Lt(result.corporate_tax, Zero)
        /\ result.corporate_tax =
              Div(Mul(result.net_profit_before_tax, args.tax_rate), Num(100))
        /\ result.net_profit =
              Sub(result.net_profit_before_tax, result.corporate_tax)

\* a loss before tax under a positive tax rate, with a positive gross profit
C10_Witness ==
    /\ PricingReturned
    /\ Gt(result.gross_profit, Zero)
    /\ Lt(result.net_profit_before_tax, Zero)
    /\ Gt(args.tax_rate, Zero)
    /\ Gt(result.net_profit, result.net_profit_before_tax)

----------------------------------------------------------------------------
(* Properties of calculate_packaging_cost                                  *)

PackagingCalled == method = "calculate_packaging_cost"

PackagingReturned == PackagingCalled /\ raised = "none"

\* C11: a packaging line with a non-empty name, unit_price > 0 and
\* quantity > 0 gets total_cost = unit_price * quantity and total_weight =
\* weight_per_unit * quantity, every other line gets 0 and 0, and the
\* returned total_cost and total_weight are the sums of these line fields.
C11_PackagingLines ==
    PackagingCalled =>
        /\ raised = "none"
        /\ Len(result.packaging) = Len(args.packaging_data)
        /\ \A i \in 1..Len(args.packaging_data) :
              LET line == args.packaging_data[i]
                  out == result.packaging[i]
              IN  IF /\ line.name # ""
                     /\ Gt(line.unit_price, Zero)
                     /\ Gt(line.quantity, Zero)
                  THEN /\ out.total_cost = Mul(line.unit_price, line.quantity)
                       /\ out.total_weight =
                            Mul(line.weight_per_unit, line.quantity)
                  ELSE /\ out.total_cost = Zero
                       /\ out.total_weight = Zero
        /\ result.total_cost = SumField(result.packaging, "total_cost")
        /\ result.total_weight = SumField(result.packaging, "total_weight")

\* a call on a costed line with a non-zero weight and a named, priced line
\* of negative quantity, which is zeroed
C11_Witness ==
    /\ PackagingReturned
    /\ \E i, j \in 1..Len(args.packaging_data) :
          /\ result.packaging[i].total_cost # Zero
          /\ result.packaging[i].total_weight # Zero
          /\ args.packaging_data[j].name # ""
          /\ Gt(args.packaging_data[j].unit_price, Zero)
          /\ Lt(args.packaging_data[j].quantity, Zero)
          /\ result.packaging[j].total_cost = Zero

\* the packaging list of the scenario: one Pouch line
PouchList ==
    << [name |-> "Pouch", unit_price |-> Num(197), quantity |-> Num(2703),
        weight_per_unit |-> <<2, 5>>] >>

\* C20 as claimed: for the single line {Pouch, 197, 2703, 0.4} the totals
\* are total_cost = 532,191 and total_weight = 1081.2.
C20_PouchAsClaimed ==
    (PackagingCalled /\ args.packaging_data = PouchList) =>
        /\ raised = "none"
        /\ result.total_cost = Num(532191)
        /\ result.total_weight = <<5406, 5>>

\* C20: for the single line {Pouch, 197, 2703, 0.4} the totals are
\* total_cost = 197 * 2703 = 532,491 and total_weight = 1081.2.
C20_Pouch ==
    (PackagingCalled /\ args.packaging_data = PouchList) =>
        /\ raised = "none"
        /\ result.total_cost = Num(532491)
        /\ result.total_weight = <<5406, 5>>

\* the call on the Pouch list has returned
C20_Witness ==
    /\ PackagingReturned
    /\ args.packaging_data = PouchList
    /\ result.packaging[1].total_cost = result.total_cost
    /\ result.total_cost # Zero

----------------------------------------------------------------------------
(* More properties of calculate_raw_material_cost                          *)

\* C12: avg_unit_price = total_cost / total_weight when total_weight > 0
\* and 0 otherwise; the method never raises when total_weight is zero.
C12_AvgUnitPrice ==
    method = "calculate_raw_material_cost" =>
        /\ raised = "none"
        /\ IF Gt(result.total_weight, Zero)
           THEN result.avg_unit_price =
                    Div(result.total_cost, result.total_weight)
           ELSE result.avg_unit_price = Zero

\* a call that returns total_weight 0 for a list that has a line passing
\* the condition (its base quantity is 0)
C12_Witness ==
    /\ RawReturned
    /\ result.total_weight = Zero
    /\ result.avg_unit_price = Zero
    /\ \E i \in 1..Len(args.materials_data) :
          /\ args.materials_data[i].name # ""
          /\ Gt(args.materials_data[i].ratio, Zero)
          /\ Gt(args.materials_data[i].unit_price, Zero)

\* the fields of line a that the caller supplied equal those of line b
SameInputFields(a, b, fields) == \A f \in fields : a[f] = b[f]

MaterialInputFields == {"name", "ratio", "unit_price", "base_quantity"}

PackagingInputFields == {"name", "unit_price", "quantity", "weight_per_unit"}

\* C13: the returned line list has the length of the input list and the
\* same lines in the same order, for both line methods: an invalid line is
\* zeroed, never dropped or moved.
C13_OrderPreserved ==
    /\ RawReturned =>
          /\ Len(result.materials) = Len(args.materials_data)
          /\ \A i \in 1..Len(args.materials_data) :
                SameInputFields(result.materials[i], args.materials_data[i],
                                MaterialInputFields)
    /\ PackagingReturned =>
          /\ Len(result.packaging) = Len(args.packaging_data)
          /\ \A i \in 1..Len(args.packaging_data) :
                SameInputFields(result.packaging[i], args.packaging_data[i],
                                PackagingInputFields)

\* a call on an invalid line followed by a different, costed line
C13_Witness ==
    /\ RawReturned
    /\ Len(args.materials_data) = 2
    /\ args.materials_data[1].name = ""
    /\ result.materials[1].cost = Zero
    /\ result.materials[2].cost # Zero
    /\ args.materials_data[1].unit_price # args.materials_data[2].unit_price

----------------------------------------------------------------------------
(* Properties of the result mappings                                       *)

\* C17: the result of calculate_profit_and_pricing holds the seven computed
\* figures and the fields selling_expenses and non_operating_expenses, the
\* latter two equal to the values passed in.
C17_PricingFields ==
    PricingReturned =>
        /\ DOMAIN result =
              {"profit_amount", "estimated_selling_price", "wholesale_price",
               "gross_profit", "net_profit_before_tax", "corporate_tax",
               "net_profit", "selling_expenses", "non_operating_expenses"}
        /\ result.selling_expenses = args.selling_expenses
        /\ result.non_operating_expenses = args.non_operating_expenses

\* a call with two different non-zero expenses
C17_Witness ==
    /\ PricingReturned
    /\ result.selling_expenses # Zero
    /\ result.non_operating_expenses # Zero
    /\ result.selling_expenses # result.non_operating_expenses

\* C18: calculate_labor_cost validates nothing and returns
\* total_labor_cost = direct_labor + indirect_labor + temporary_labor with
\* the three components unchanged, zero and negative values included.
C18_LaborSum ==
    method = "calculate_labor_cost" =>
        /\ raised = "none"
        /\ result.total_labor_cost =
              Add(args.labor_data.direct_labor,
                  Add(args.labor_data.indirect_labor,
                      args.labor_data.temporary_labor))
        /\ result.direct_labor = args.labor_data.direct_labor
        /\ result.indirect_labor = args.labor_data.indirect_labor
        /\ result.temporary_labor = args.labor_data.temporary_labor

\* a call with a negative, a zero and a positive component
C18_Witness ==
    /\ method = "calculate_labor_cost"
    /\ raised = "none"
    /\ Lt(args.labor_data.direct_labor, Zero)
    /\ args.labor_data.indirect_labor = Zero
    /\ Gt(args.labor_data.temporary_labor, Zero)
    /\ Gt(result.total_labor_cost, Zero)

\* C19: calculate_manufacturing_overhead returns total_overhead =
\* other_expenses + welfare_expenses + depreciation with the three
\* components unchanged.
C19_OverheadSum ==
    method = "calculate_manufacturing_overhead" =>
        /\ raised = "none"
        /\ result.total_overhead =
              Add(args.overhead_data.other_expenses,
                  Add(args.overhead_data.welfare_expenses,
                      args.overhead_data.depreciation))
        /\ result.other_expenses = args.overhead_data.other_expenses
        /\ result.welfare_expenses = args.overhead_data.welfare_expenses
        /\ result.depreciation = args.overhead_data.depreciation

\* a call with three non-zero components
C19_Witness ==
    /\ method = "calculate_manufacturing_overhead"
    /\ raised = "none"
    /\ args.overhead_data.other_expenses # Zero
    /\ args.overhead_data.welfare_expenses # Zero
    /\ args.overhead_data.depreciation # Zero
    /\ result.total_overhead = Num(18)

----------------------------------------------------------------------------
(* Zero contribution of invalid material lines                             *)

\* the lines C14 speaks of: ratio = 0, or unit_price = 0, or an empty name
ZeroContribution(line) ==
    line.ratio = Zero \/ line.unit_price = Zero \/ line.name = ""

\* the list without its element at position i
RemoveAt(list, i) ==
    SubSeq(list, 1, i - 1) \o SubSeq(list, i + 1, Len(list))

\* the list with x inserted so that it stands at position i
InsertAt(list, i, x) ==
    SubSeq(list, 1, i - 1) \o <<x>> \o SubSeq(list, i, Len(list))

\* the three totals of a calculate_raw_material_cost result
RawTotalsOf(r) == <<r.total_cost, r.total_weight, r.avg_unit_price>>

\* C14: a material line with ratio = 0, or unit_price = 0, or an empty name
\* contributes (0, 0) whatever its other fields are: removing such a line
\* from the list, or inserting one at any position, leaves total_cost,
\* total_weight and avg_unit_price unchanged.
C14_ZeroContribution ==
    RawReturned =>
        /\ \A i \in 1..Len(args.materials_data) :
              ZeroContribution(args.materials_data[i]) =>
                  LET without == calculate_raw_material_cost(
                                     RemoveAt(args.materials_data, i))
                  IN  /\ result.materials[i].cost = Zero
                      /\ result.materials[i].input_quantity = Zero
                      /\ without.raised = "none"
                      /\ RawTotalsOf(without.ret) = RawTotalsOf(result)
        /\ \A line \in {l \in MaterialLines : ZeroContribution(l)} :
              \A i \in 1..(Len(args.materials_data) + 1) :
                  LET with == calculate_raw_material_cost(
                                  InsertAt(args.materials_data, i, line))
                  IN  /\ with.raised = "none"
                      /\ RawTotalsOf(with.ret) = RawTotalsOf(result)

\* a call on a costed line and a named line of price 0 whose ratio and
\* base quantity are positive
C14_Witness ==
    /\ RawReturned
    /\ Gt(result.total_cost, Zero)
    /\ \E i \in 1..Len(args.materials_data) :
          /\ args.materials_data[i].unit_price = Zero
          /\ args.materials_data[i].name # ""
          /\ Gt(args.materials_data[i].ratio, Zero)
          /\ Gt(args.materials_data[i].base_quantity, Zero)

----------------------------------------------------------------------------
(* Repeated calls                                                          *)

\* this step is a second call of a line method, made on the list that the
\* call before it annotated in place
RepeatedLineCall ==
    /\ method \in {"calculate_raw_material_cost", "calculate_packaging_cost"}
    /\ raised = "none"
    /\ method' = method
    /\ IF method = "calculate_raw_material_cost"
       THEN args'.materials_data = data
       ELSE args'.packaging_data = data

\* C15: a second call of calculate_raw_material_cost or
\* calculate_packaging_cost on the line list that the first call annotated
\* in place raises nothing, returns the same totals and the same per-line
\* derived fields, and leaves the list and the calculator as they were.
C15_Idempotent ==
    [][RepeatedLineCall =>
          /\ raised' = "none"
          /\ result' = result
          /\ data' = data
          /\ self' = self]_vars

\* a second call has returned for a list of a costed and a zeroed line,
\* both carrying the derived keys when they were passed in
C15_Witness ==
    /\ RawReturned
    /\ Len(args.materials_data) = 2
    /\ \A i \in 1..2 :
          {"input_quantity", "cost"} \subseteq DOMAIN args.materials_data[i]
    /\ result.materials[1].cost # Zero
    /\ result.materials[2].cost = Zero
    /\ Gt(result.total_weight, Zero)

----------------------------------------------------------------------------
(* Calls running at once                                                   *)

\* what call t returns when it runs alone on its input list
Alone(t) ==
    IF calls[t].method = "calculate_raw_material_cost"
    THEN calculate_raw_material_cost(calls[t].input)
    ELSE calculate_packaging_cost(calls[t].input)

\* C16: two calls on lists of their own, their per-line steps interleaved
\* in any order, each return what they return when run alone, leave their
\* list as the call alone leaves it, and leave the calculator untouched.
C16_Independent ==
    /\ self = CostCalculator_init
    /\ \A t \in Threads :
          calls[t].pc = "done" =>
              /\ calls[t].raised = Alone(t).raised
              /\ calls[t].ret = Alone(t).ret
              /\ calls[t].lines = Alone(t).data

\* both calls have returned non-zero totals for two-line lists, each having
\* run an iteration while the other was inside its loop
C16_Witness ==
    /\ \A t \in Threads :
          /\ calls[t].pc = "done"
          /\ calls[t].overlapped
          /\ Len(calls[t].input) = 2
          /\ calls[t].ret.total_cost # Zero
    /\ calls[1].ret.total_cost # calls[2].ret.total_cost

----------------------------------------------------------------------------
(* The labor components main() hands to calculate_labor_cost               *)

MainLaborReturned == method = "main.calculate_labor_cost" /\ raised = "none"

\* ratio * hourly_wage * hours * worker_count / 100, the percentage taken
\* last and the factors multiplied from the right
ComponentOf(inputs) ==
    Div(Mul(inputs.ratio,
            Mul(inputs.hourly_wage, Mul(inputs.hours, inputs.worker_count))),
        Hundred)

\* C21: each of the three labor components main() hands to
\* calculate_labor_cost is ratio/100 * hourly_wage * hours * worker_count of
\* that component's own four inputs, and the engine returns the components
\* as handed in together with their sum.
C21_LaborComponents ==
    method = "main.calculate_labor_cost" =>
        /\ raised = "none"
        /\ args.labor_data.direct_labor = ComponentOf(args.direct)
        /\ args.labor_data.indirect_labor = ComponentOf(args.indirect)
        /\ args.labor_data.temporary_labor = ComponentOf(args.temporary)
        /\ result.direct_labor = ComponentOf(args.direct)
        /\ result.indirect_labor = ComponentOf(args.indirect)
        /\ result.temporary_labor = ComponentOf(args.temporary)
        /\ result.total_labor_cost =
              Add(ComponentOf(args.direct),
                  Add(ComponentOf(args.indirect), ComponentOf(args.temporary)))

\* the three components are computed from different inputs and differ
C21_Witness ==
    /\ MainLaborReturned
    /\ args.direct.worker_count # args.indirect.worker_count
    /\ args.indirect.hourly_wage # args.temporary.hourly_wage
    /\ result.direct_labor # result.indirect_labor
    /\ result.indirect_labor # result.temporary_labor
    /\ result.temporary_labor # Zero
    /\ result.total_labor_cost # Zero

----------------------------------------------------------------------------
(* Effect of the line methods on their argument and on the calculator      *)

\* list after is list before with, on every line, the keys of written set
\* and every other key as it was
OnlyKeysWritten(before, after, written) ==
    /\ Len(after) = Len(before)
    /\ \A i \in 1..Len(before) :
          /\ DOMAIN after[i] = DOMAIN before[i] \cup written
          /\ \A f \in DOMAIN before[i] \ written : after[i][f] = before[i][f]

\* C22: the only effect of calculate_raw_material_cost on its input list is
\* setting the keys input_quantity and cost of each line, and the only
\* effect of calculate_packaging_cost is setting total_cost and
\* total_weight; the other keys of the lines keep their values, no line is
\* added or removed, and the calculator's own fields stay as __init__ left
\* them.
C22_OnlyKeysSet ==
    /\ RawReturned =>
          /\ OnlyKeysWritten(args.materials_data, data,
                             {"input_quantity", "cost"})
          /\ \A i \in 1..Len(data) :
                SameInputFields(data[i], args.materials_data[i],
                                MaterialInputFields)
    /\ PackagingReturned =>
          /\ OnlyKeysWritten(args.packaging_data, data,
                             {"total_cost", "total_weight"})
          /\ \A i \in 1..Len(data) :
                SameInputFields(data[i], args.packaging_data[i],
                                PackagingInputFields)
    /\ self = CostCalculator_init

\* a fresh list of two lines, one valid and one not, has been annotated
C22_Witness ==
    /\ RawReturned
    /\ Len(data) = 2
    /\ data[1].cost # Zero
    /\ data[2].cost = Zero
    /\ data[2].name = "A"
    /\ "cost" \notin DOMAIN args.materials_data[1]

----------------------------------------------------------------------------
(* The parts of a calculate_total_cost result add up                       *)

\* C24: in every calculate_total_cost result material_cost + labor_cost +
\* overhead_cost = total_manufacturing_cost, and when production_quantity
\* is above 0 also unit_material_cost + unit_labor_cost +
\* unit_overhead_cost = unit_manufacturing_cost (exact arithmetic).
C24_PartsAddUp ==
    TotalCalled =>
        /\ raised = "none"
        /\ Add(result.material_cost,
               Add(result.labor_cost, result.overhead_cost))
             = result.total_manufacturing_cost
        /\ Gt(args.production_quantity, Zero) =>
              Add(result.unit_material_cost,
                  Add(result.unit_labor_cost, result.unit_overhead_cost))
                = result.unit_manufacturing_cost

\* a result with three non-zero parts, cancelling nowhere, at a quantity
\* that divides none of them
C24_Witness ==
    /\ TotalReturned
    /\ Gt(args.production_quantity, Num(1))
    /\ result.material_cost # Zero
    /\ result.labor_cost # Zero
    /\ result.overhead_cost # Zero
    /\ result.unit_material_cost[2] # 1
    /\ result.unit_overhead_cost[2] # 1
    /\ result.unit_manufacturing_cost # Zero

----------------------------------------------------------------------------
(* Bounds on the totals of calculate_raw_material_cost                     *)

\* the lines of a list with a non-empty name, ratio > 0 and unit_price > 0
ValidLines(lines) ==
    {i \in 1..Len(lines) :
        /\ lines[i].name # ""
        /\ Gt(lines[i].ratio, Zero)
        /\ Gt(lines[i].unit_price, Zero)}

AllBasePositive(lines) ==
    \A i \in 1..Len(lines) : Gt(lines[i].base_quantity, Zero)

\* C25: for a material list where every line has base_quantity > 0,
\* total_cost >= 0 and total_weight >= 0, total_weight = 0 exactly when no
\* line is valid, and when total_weight > 0 avg_unit_price lies between
\* the smallest and the largest unit_price of the valid lines.
C25_TotalsBounded ==
    (method = "calculate_raw_material_cost"
        /\ AllBasePositive(args.materials_data)) =>
        LET valid == ValidLines(args.materials_data) IN
        /\ raised = "none"
        /\ ~Lt(result.total_cost, Zero)
        /\ ~Lt(result.total_weight, Zero)
        /\ (result.total_weight = Zero) <=> (valid = {})
        /\ Gt(result.total_weight, Zero) =>
              /\ \E i \in valid :
                    ~Gt(args.materials_data[i].unit_price,
                        result.avg_unit_price)
              /\ \E i \in valid :
                    ~Lt(args.materials_data[i].unit_price,
                        result.avg_unit_price)

\* two valid lines with different prices: the average is strictly between
C25_Witness ==
    /\ RawReturned
    /\ AllBasePositive(args.materials_data)
    /\ ValidLines(args.materials_data) = {1, 2}
    /\ Lt(args.materials_data[1].unit_price, result.avg_unit_price)
    /\ Gt(args.materials_data[2].unit_price, result.avg_unit_price)

----------------------------------------------------------------------------
(* CostCalculatorWithSheets computes what CostCalculator computes          *)

\* what the call of this state raised, left in its argument and returned
Observed == [raised |-> raised, data |-> data, ret |-> result]

\* the same call made on a CostCalculatorWithSheets object
WithSheetsOutcome ==
    CASE method = "calculate_raw_material_cost" ->
            WithSheets_calculate_raw_material_cost(args.materials_data)
      [] method = "calculate_packaging_cost" ->
            WithSheets_calculate_packaging_cost(args.packaging_data)
      [] method \in {"calculate_labor_cost", "main.calculate_labor_cost"} ->
            WithSheets_calculate_labor_cost(args.labor_data)
      [] method = "calculate_manufacturing_overhead" ->
            WithSheets_calculate_manufacturing_overhead(args.overhead_data)
      [] method = "calculate_total_cost" ->
            WithSheets_calculate_total_cost(
                args.raw_material_cost, args.packaging_cost, args.labor_cost,
                args.overhead_cost, args.production_quantity)
      [] method = "calculate_profit_and_pricing" ->
            WithSheets_calculate_profit_and_pricing(
                args.total_cost, args.profit_margin, args.selling_expenses,
                args.non_operating_expenses, args.tax_rate)
      [] OTHER -> Observed

\* C23: each of the six calculation methods of CostCalculatorWithSheets
\* returns, for every input, what the method of the same name of
\* CostCalculator returns: the same mapping, the same exception if any, and
\* the same annotations on the argument.
C23_SameAsCostCalculator ==
    method # "none" => WithSheetsOutcome = Observed

\* the six methods have been compared on inputs that exercise their
\* branches: here the total with a positive quantity that divides nothing
C23_Witness ==
    /\ method = "calculate_total_cost"
    /\ Gt(args.production_quantity, Num(1))
    /\ WithSheetsOutcome.ret.unit_manufacturing_cost[2] # 1
    /\ WithSheetsOutcome.ret.unit_labor_cost # Zero

----------------------------------------------------------------------------
(* Properties of the Google Sheets layer                                   *)

\* C26: if write_data returns False the worksheet still holds the rows it
\* had before the call: a failure while appending the header or a data row
\* does not leave the sheet cleared or partly written.
C26_FailedWriteKeepsContent ==
    (last.name = "write_data" /\ last.ret = FALSE) =>
        worksheet = last.before

\* the records of the sheet as the product methods read them
RecordsOf(rows) == DataFrame(get_all_records(rows))

\* the records (counted from 1) whose id column holds product_id
RecordsWithId(table, product_id) ==
    {i \in 1..Len(table.rows) :
        \E j \in 1..Len(table.columns) :
            /\ table.columns[j] = IdColumn
            /\ table.rows[i][j] = product_id}

\* C27: update_product and delete_product with a product_id no record of
\* the sheet has, or on an empty sheet, return False and leave the sheet as
\* it was; with a matching product_id they act on the sheet row of the
\* first matching record only (the record at index i, counted from 0, is
\* sheet row i + 2) and leave the header and every other row as they were.
C27_ProductRow ==
    last.name \in {"update_product", "delete_product"} =>
        LET matching == RecordsWithId(RecordsOf(last.before),
                                      last.args.product_id)
        IN  /\ last.raised = "none"
            /\ matching = {} =>
                  /\ last.ret = FALSE
                  /\ worksheet = last.before
            /\ matching # {} =>
                  LET n == 1 + CHOOSE i \in matching :
                                   \A k \in matching : i <= k
                  IN  \/ /\ last.ret = FALSE
                         /\ worksheet = last.before
                      \/ /\ last.ret = TRUE
                         /\ last.name = "update_product"
                         /\ Len(worksheet) = Len(last.before)
                         /\ worksheet[n] = last.args.product_data
                         /\ \A k \in 1..Len(worksheet) :
                               k # n => worksheet[k] = last.before[k]
                      \/ /\ last.ret = TRUE
                         /\ last.name = "delete_product"
                         /\ Len(worksheet) = Len(last.before) - 1
                         /\ \A k \in 1..Len(worksheet) :
                               worksheet[k] =
                                   IF k < n THEN last.before[k]
                                   ELSE last.before[k + 1]

\* the calls that report failure as a value
ReportingCalls ==
    {"open_spreadsheet", "write_data", "append_data", "update_row",
     "delete_row", "get_worksheet", "read_data"}

\* the value by which a call reports failure
FailureValue(name) ==
    CASE name = "get_worksheet" -> None
      [] name = "read_data" -> EmptyTable
      [] OTHER -> FALSE

\* C28 as stated: a call made before authenticate and open_spreadsheet
\* have both succeeded never raises and returns its failure value, and
\* open_spreadsheet is one of these calls.
C28_AsClaimed ==
    (last.name \in ReportingCalls
        /\ ~(last.authenticated /\ last.opened)) =>
        /\ last.raised = "none"
        /\ last.ret = FailureValue(last.name)

\* C28: in any order of calls none of them raises; open_spreadsheet made
\* before authenticate has succeeded returns False; write_data,
\* append_data, update_row and delete_row made before authenticate and
\* open_spreadsheet have both succeeded return False, get_worksheet
\* returns None and read_data an empty table.
C28_FailureAsValue ==
    /\ last.name \in ReportingCalls => last.raised = "none"
    /\ (last.name = "open_spreadsheet" /\ ~last.authenticated) =>
          last.ret = FALSE
    /\ (last.name \in ReportingCalls \ {"open_spreadsheet"}
          /\ ~(last.authenticated /\ last.opened)) =>
          last.ret = FailureValue(last.name)

\* a table of two rows was handed to write_data after authenticate had
\* succeeded and before any spreadsheet was opened
C28_Witness ==
    /\ last.name = "write_data"
    /\ last.authenticated
    /\ ~last.opened
    /\ Len(last.args.data.rows) = 2
    /\ last.ret = FALSE
    /\ worksheet # << >>

\* C29: after write_data(worksheet, data) returns True, read_data of the
\* worksheet returns the rows of data, in their order and under their
\* column names, and nothing else; for an empty data table the worksheet
\* is left empty.  (A read whose own API calls raise is left aside.)
C29_RoundTrip ==
    [][(/\ last.name = "write_data"
        /\ last.ret = TRUE
        /\ last'.name = "read_data"
        /\ last'.fail = <<0>>) =>
           IF IsEmptyTable(last.args.data)
           THEN worksheet = << >>
           ELSE last'.ret = last.args.data]_vars

ManagersOf(obj) ==
    {obj.product_manager, obj.material_manager, obj.calculation_manager}

\* C30: in every state of a CostCalculatorWithSheets object the three
\* managers are all unset or all set, and they are set only after
\* authenticate has succeeded (sheets_manager.client is set) and
\* initialize_managers has been called.
C30_ManagersTogether ==
    /\ \/ ManagersOf(sheets) = {None}
       \/ None \notin ManagersOf(sheets)
    /\ None \notin ManagersOf(sheets) =>
          /\ history.authenticated
          /\ sheets.client # None
          /\ history.initialized

\* the managers are set on an object that has not opened a spreadsheet,
\* and a product method has been called through them
C30_Witness ==
    /\ sheets.product_manager = "ProductManager"
    /\ sheets.material_manager = "MaterialManager"
    /\ sheets.calculation_manager = "CostCalculationManager"
    /\ sheets.spreadsheet = None
    /\ last.name = "update_product"

====
